---- MODULE Spec2Model ----
(***************************************************************************)
(* Voice/typed command interpreter of alice-shell.py (CodexVoiceShell):    *)
(* the confirmation state machine, the pending command, the console buffer *)
(* and its windowing indices, driven by spoken utterances (recognition     *)
(* thread) and typed lines (main thread).                                  *)
(*                                                                         *)
(* Text is kept as strings and processed character by character, the way   *)
(* the Python code does (lower, strip, split, startswith, difflib ratio).  *)
(* Every console line is kept as the constant Line: the claims depend on   *)
(* how many lines the buffer holds and where the indices point, never on a *)
(* line's words.                                                           *)
(***************************************************************************)
EXTENDS Integers, Sequences, FiniteSets, TLC

\* ------------------------------------------------------------------ bounds

\* Utterances heard and lines typed at the "$ " prompt in one run; the answer
\* to a question a handler asks itself comes with the line that asked.
MaxInputs == 4

\* Nested handler frames a thread may have pending (v-exec running v-exec).
MaxDepth == 4

\* Calls made on the word store of alice.py in one run.
MaxCalls == 4

\* Lines of a response of the code-generation tool.
MaxResponseLines == 3

\* Commands given to the GUI in one run.
MaxCommands == 4

\* Speech worker threads the GUI starts in one run.
MaxWorkers == 2

\* Requests to start or stop the listening in one run.
MaxRequests == 4

\* Loops of one kind (audio capture, recognition) started in one run.
MaxLoops == 3

\* ----------------------------------------------------------- Python strings

None == "<None>"

Ch(s, i) == SubSeq(s, i, i)

UpperChars == "ABCDEFGHIJKLMNOPQRSTUVWXYZ"

LowerChars == "abcdefghijklmnopqrstuvwxyz"

DigitChars == "0123456789"

IsSpace(c) == c \in {" ", "\t", "\n"}

IsAlnum(c) ==
    \/ \E i \in 1..26 : c = Ch(UpperChars, i) \/ c = Ch(LowerChars, i)
    \/ \E i \in 1..10 : c = Ch(DigitChars, i)

LowerCh(c) ==
    IF \E i \in 1..26 : c = Ch(UpperChars, i)
    THEN Ch(LowerChars, CHOOSE i \in 1..26 : c = Ch(UpperChars, i))
    ELSE c

\* str.lower(), character by character (the string is halved to keep the
\* evaluation shallow)
RECURSIVE Lower(_)
Lower(s) ==
    IF s = "" THEN ""
    ELSE IF Len(s) = 1 THEN LowerCh(s)
    ELSE Lower(SubSeq(s, 1, Len(s) \div 2)) \o Lower(SubSeq(s, Len(s) \div 2 + 1, Len(s)))

RECURSIVE LStrip(_)
LStrip(s) == IF s # "" /\ IsSpace(Head(s)) THEN LStrip(Tail(s)) ELSE s

RECURSIVE RStrip(_)
RStrip(s) ==
    IF s # "" /\ IsSpace(Ch(s, Len(s))) THEN RStrip(SubSeq(s, 1, Len(s) - 1)) ELSE s

Strip(s) == RStrip(LStrip(s))

StartsWith(s, p) == Len(s) >= Len(p) /\ SubSeq(s, 1, Len(p)) = p

\* str.split(): the maximal runs of non-space characters.
RECURSIVE Split(_)
Split(s) ==
    LET t == LStrip(s) IN
    IF t = "" THEN << >>
    ELSE LET n == IF \E i \in 1..Len(t) : IsSpace(Ch(t, i))
                  THEN (CHOOSE i \in 1..Len(t) :
                           IsSpace(Ch(t, i)) /\ \A j \in 1..(i - 1) : ~IsSpace(Ch(t, j))) - 1
                  ELSE Len(t)
         IN <<SubSeq(t, 1, n)>> \o Split(SubSeq(t, n + 1, Len(t)))

\* str.splitlines(): cut at every newline, no empty last line.
RECURSIVE SplitLines(_)
SplitLines(s) ==
    IF s = "" THEN << >>
    ELSE IF \E i \in 1..Len(s) : Ch(s, i) = "\n"
         THEN LET n == CHOOSE i \in 1..Len(s) :
                          Ch(s, i) = "\n" /\ \A j \in 1..(i - 1) : Ch(s, j) # "\n"
              IN <<SubSeq(s, 1, n - 1)>> \o SplitLines(SubSeq(s, n + 1, Len(s)))
         ELSE <<s>>

RECURSIVE Join(_, _)
Join(words, sep) ==
    IF words = << >> THEN ""
    ELSE IF Len(words) = 1 THEN words[1]
    ELSE words[1] \o sep \o Join(Tail(words), sep)

RECURSIVE KeepAlnumSpace(_)
KeepAlnumSpace(s) ==
    IF s = "" THEN ""
    ELSE (IF IsAlnum(Head(s)) \/ IsSpace(Head(s)) THEN Head(s) ELSE "")
         \o KeepAlnumSpace(Tail(s))

\* _norm: lower-case, strip, drop every character that is not alphanumeric or space.
Norm(s) == KeepAlnumSpace(Strip(Lower(s)))

\* _tokenize
Tokenize(s) == Split(Norm(s))

\* --------------------------------------------------------- fuzzy matching

\* difflib.SequenceMatcher.find_longest_match on a[alo..ahi-1], b[blo..bhi-1]
\* (1-based, no junk): the longest common block, earliest in a, then in b.
LongestMatch(a, alo, ahi, b, blo, bhi) ==
    LET blocks == {blk \in (alo..(ahi - 1)) \X (blo..(bhi - 1)) \X (1..(ahi - alo)) :
                      /\ blk[1] + blk[3] <= ahi
                      /\ blk[2] + blk[3] <= bhi
                      /\ SubSeq(a, blk[1], blk[1] + blk[3] - 1)
                           = SubSeq(b, blk[2], blk[2] + blk[3] - 1)}
    IN IF blocks = {} THEN <<alo, blo, 0>>
       ELSE CHOOSE x \in blocks : \A y \in blocks :
               \/ x[3] > y[3]
               \/ x[3] = y[3] /\ x[1] < y[1]
               \/ x[3] = y[3] /\ x[1] = y[1] /\ x[2] <= y[2]

\* Total size of difflib's matching blocks (get_matching_blocks).
RECURSIVE MatchSize(_, _, _, _, _, _)
MatchSize(a, alo, ahi, b, blo, bhi) ==
    IF alo >= ahi \/ blo >= bhi THEN 0
    ELSE LET m == LongestMatch(a, alo, ahi, b, blo, bhi) IN
         IF m[3] = 0 THEN 0
         ELSE m[3] + MatchSize(a, alo, m[1], b, blo, m[2])
                   + MatchSize(a, m[1] + m[3], ahi, b, m[2] + m[3], bhi)

\* SequenceMatcher(None, a, b).ratio() >= pct/100, in integers:
\* ratio = 2*M/T, and 1.0 when both strings are empty.
RatioAtLeast(a, b, pct) ==
    IF Len(a) + Len(b) = 0 THEN pct <= 100
    ELSE 200 * MatchSize(a, 1, Len(a) + 1, b, 1, Len(b) + 1) >= pct * (Len(a) + Len(b))

\* Default threshold of _fuzzy_in, in hundredths.
FuzzyThreshold == 78

\* _fuzzy_in comparing the letters as they are
FuzzyIn_CaseSensitive(word, candidates, pct) ==
    LET w == Strip(word) IN
    /\ w # ""
    /\ candidates # << >>
    /\ \E i \in 1..Len(candidates) : RatioAtLeast(w, Strip(candidates[i]), pct)

\* _fuzzy_in(word, candidates, threshold)
FuzzyIn(word, candidates, pct) ==
    LET w == Strip(Lower(word)) IN
    /\ w # ""
    /\ candidates # << >>
    /\ \E i \in 1..Len(candidates) : RatioAtLeast(w, Strip(Lower(candidates[i])), pct)

\* ------------------------------------------------------------ program state

VARIABLES
    self,        \* the CodexVoiceShell object: one field per attribute
    blocked,     \* per thread, the frames of the handlers it is inside (top first)
    started,     \* run() has printed the banner and reached its loop
    main_done,   \* run() has returned
    inputs,      \* utterances heard and lines typed so far
    step,        \* what the last step was: thread, input, effects
    store,       \* the VoiceProfile object of alice.py, its exported file, its clock
    probe,       \* the last call of a function on its own: name, arguments, result
    gui,         \* the CodexVoiceGUI object of alice.py: speech playback and runs
    mic          \* the listening of both front ends: the flag, the loops started

vars == <<self, blocked, started, main_done, inputs, step, store, probe, gui, mic>>

shell_vars == <<self, blocked, started, main_done, inputs, step>>

Line == "line"

TTS_SPEED_MIN == 50

TTS_SPEED_MAX == 200

TTS_SPEED_STEP == 25

\* Python truthiness of an Optional[str]
Truthy(v) == v # None /\ v # ""

\* A handler works on the object's fields plus: stack (the frames of the
\* running thread, top first) and fx (the effects of the step so far).
Fx(s, op, arg) == [s EXCEPT !.fx = Append(@, <<op, arg, 0>>)]

Push(s, f, arg) == [s EXCEPT !.stack = <<[f |-> f, arg |-> arg, n |-> 0]>> \o @]

\* as the read of the length, an anchor taken by emptying the buffer instead
ReadLen_Truncates(s, index) ==
    [s EXCEPT !.terminal_buffer = IF index = "anchor" THEN << >> ELSE @,
              !.stack = <<[f |-> "store_index", arg |-> index,
                           n |-> IF index = "anchor" THEN 0 ELSE Len(s.terminal_buffer)]>> \o @]

\* index = len(self.terminal_buffer): the length is read here and stored by a
\* later step of the thread (StoreIndex); the other thread may run in between.
ReadLen(s, index) ==
    [s EXCEPT !.stack = <<[f |-> "store_index", arg |-> index,
                           n |-> Len(s.terminal_buffer)]>> \o @]

\* _print(text, buffer=True); _print(..., buffer=False) leaves the object alone
PrintLine(s, text) ==
    IF text # ""
    THEN [s EXCEPT !.terminal_buffer = Append(@, Line)]
    ELSE s

\* _print of each text in turn
PrintLines(s, texts) ==
    LET n == Cardinality({i \in 1..Len(texts) : texts[i] # ""}) IN
    [s EXCEPT !.terminal_buffer = @ \o [i \in 1..n |-> Line]]

\* _speak(text): synthesize and play, and write a recording when enabled
Speak(s, text) ==
    IF ~s.tts \/ text = "" \/ text = None THEN s
    ELSE IF s.save_recordings THEN Fx(Fx(s, "speak", text), "record", text)
         ELSE Fx(s, "speak", text)

Guided(s, text) == IF s.guided_mode THEN Speak(s, text) ELSE s

\* VoiceProfile.get_aliases(key, default)
GetAliases(s, key, default) ==
    LET vals == s.profile[Lower(key)] IN
    IF vals = << >> THEN default
    ELSE LET RECURSIVE Uniq(_, _)
             Uniq(rest, out) ==
                 IF rest = << >> THEN out
                 ELSE LET wl == Strip(Lower(Head(rest))) IN
                      IF wl # "" /\ \A i \in 1..Len(out) : out[i] # wl
                      THEN Uniq(Tail(rest), Append(out, wl))
                      ELSE Uniq(Tail(rest), out)
         IN Uniq(vals, << >>)

\* VoiceProfile.add_aliases(key, words)
AddAliases(s, key, words) ==
    LET k == Lower(key)
        RECURSIVE Add(_, _)
        Add(base, rest) ==
            IF rest = << >> THEN base
            ELSE LET wl == Strip(Lower(Head(rest))) IN
                 IF wl # "" /\ \A i \in 1..Len(base) : base[i] # wl
                 THEN Add(Append(base, wl), Tail(rest))
                 ELSE Add(base, Tail(rest))
        RECURSIVE LowerAll(_)
        LowerAll(ws) == IF ws = << >> THEN << >> ELSE <<Lower(Head(ws))>> \o LowerAll(Tail(ws))
    IN [s EXCEPT !.profile[k] = Add(LowerAll(@), words)]

GetWakeVariants(s) ==
    <<Strip(Lower(s.assistant_name))>> \o GetAliases(s, "wake", << >>)

GetYesVariants(s) ==
    GetAliases(s, "yes", <<"yes", "yeah", "yep", "confirm", "sure", "ok", "okay">>)

GetNoVariants(s) ==
    GetAliases(s, "no", <<"no", "nope", "cancel", "stop", "never">>)

GetGuidedVariants(s) ==
    GetAliases(s, "guided", <<"guided", "talkative", "explain", "helpful">>)

GetUnguidedVariants(s) ==
    GetAliases(s, "unguided", <<"unguided", "quiet", "minimal">>)

\* _save_settings: the settings file gets the current settings
SaveSettings(s) ==
    Fx([s EXCEPT !.settings_file =
          <<[assistant_name |-> s.assistant_name, guided_mode |-> s.guided_mode,
             model |-> s.current_model, reasoning |-> s.current_reasoning,
             debug_enabled |-> s.debug_enabled, save_recordings |-> s.save_recordings,
             save_prompts |-> s.save_prompts, use_color |-> s.use_color,
             tts_speed |-> s.tts_speed, buffer_mode |-> s.buffer_mode,
             voice_index |-> s.voice_index]>>],
       "save_settings", "")

\* -------------------------------------------------- console buffer windows

\* lines[-400:] of _get_history_for_shell
HistoryLimit == 400

\* max_lines of _print_history_preview
PreviewLimit == 40

LastN(lines, n) ==
    IF Len(lines) <= n THEN lines ELSE SubSeq(lines, Len(lines) - n + 1, Len(lines))

\* _get_history_for_shell taking the anchor under policy "last" as well
GetHistoryForShell_LastIsAnchor(s) ==
    IF s.terminal_buffer = << >> THEN << >>
    ELSE LET n == Len(s.terminal_buffer)
             sel == IF s.buffer_mode = "session" THEN 0 ELSE s.buffer_anchor_index
             start == IF sel < 0 \/ sel > n THEN 0 ELSE sel
         IN LastN(SubSeq(s.terminal_buffer, start + 1, n), HistoryLimit)

\* _get_history_for_shell: the lines of the selected window (joined by "\n" in
\* the code; a line is never empty, so the text is empty iff there is no line)
GetHistoryForShell(s) ==
    IF s.terminal_buffer = << >> THEN << >>
    ELSE LET n == Len(s.terminal_buffer)
             sel == IF s.buffer_mode = "session" THEN 0
                    ELSE IF s.buffer_mode = "anchor" THEN s.buffer_anchor_index
                    ELSE IF s.buffer_mode = "last" THEN s.buffer_last_action_index
                    ELSE 0
             start == IF sel < 0 \/ sel > n THEN 0 ELSE sel
         IN LastN(SubSeq(s.terminal_buffer, start + 1, n), HistoryLimit)

\* len("\n".join(lines).splitlines()) for non-empty entries: a line ends at
\* every newline, the separators included, and at the end of the text
HistoryLineCount(lines) ==
    IF lines = << >> THEN 0
    ELSE LET k == Len(lines)
             newlines == Cardinality({ij \in UNION {{<<i, j>> : j \in 1..Len(lines[i])} :
                                                     i \in 1..k} :
                                         Ch(lines[ij[1]], ij[2]) = "\n"})
             last == lines[k]
         IN newlines + (k - 1) + (IF Ch(last, Len(last)) = "\n" THEN 0 ELSE 1)

\* _print_history_preview: shows the last 40 lines of the window, unbuffered
PrintHistoryPreview(s) ==
    LET n == HistoryLineCount(GetHistoryForShell(s)) IN
    [s EXCEPT !.fx = Append(@, <<"preview", "", IF n <= PreviewLimit THEN n
                                                 ELSE PreviewLimit>>)]

\* ------------------------------------------------- collaborators (blocking)

\* _run_shell_command up to subprocess.run: the thread waits for the command
RunShellCommand(s, command) ==
    IF Strip(command) = "" THEN s
    ELSE Push(Fx(PrintLine(s, "$ " \o command), "shell", command), "shell_wait", command)

\* _run_shell_command after subprocess.run: res.err = it raised; res.lines = the
\* lines of stdout then stderr
ShellDone(s, res) ==
    IF res.err THEN PrintLine(s, "[SHELL] Error running command")
    ELSE ReadLen(PrintLines(s, res.lines), "last")

\* _run_codex_prompt up to subprocess.run (the empty _print() buffers nothing)
RunCodexPrompt(s, prompt) ==
    LET s1 == [s EXCEPT !.last_codex_prompt = prompt]
        s2 == PrintLines(s1, <<"", "====", "New Codex run:", "Model:", "Prompt:", "Command:",
                               "codex exec", "+--+", "| Running Codex |", "+--+">>)
    IN Push(Fx(s2, "codex", prompt), "codex_wait", "")

CodexNotFound ==
    "Error: 'codex' CLI not found. Install with 'npm install -g @openai/codex' and run 'codex login'."

\* _run_codex_prompt after subprocess.run, up to the read of the buffer length
CodexDone(s, res) ==
    IF res.kind = "notfound"
    THEN [PrintLine(s, CodexNotFound) EXCEPT !.last_codex_response = CodexNotFound]
    ELSE IF res.kind = "exception"
    THEN [PrintLine(s, "Error running codex: " \o res.text)
            EXCEPT !.last_codex_response = "Error running codex: " \o res.text]
    ELSE LET out == IF res.kind = "exit"
                    THEN "Error (exit code " \o res.code \o "):\n"
                         \o (IF res.text # "" THEN res.text ELSE "(no stderr)")
                    ELSE IF res.text # "" THEN res.text ELSE "(no output)"
             s1 == PrintLine(PrintLine(s, "Output:"), out)
             s2 == [s1 EXCEPT !.last_codex_response = out]
         IN ReadLen(Push(s2, "codex_after", ""), "last")

\* _extract_cmd_expl_from_response taking the marked lines only
ExtractCmdExpl_MarkedOnly(s) ==
    LET raw == IF Truthy(s.last_codex_response) THEN s.last_codex_response ELSE ""
        all == SplitLines(raw)
        RECURSIVE Scan(_, _, _)
        Scan(ls, cmd, expl) ==
            IF ls = << >> THEN <<cmd, expl>>
            ELSE LET l == Strip(Head(ls)) IN
                 IF StartsWith(Lower(l), "cmd:")
                 THEN Scan(Tail(ls), Strip(SubSeq(l, 5, Len(l))), expl)
                 ELSE IF StartsWith(Lower(l), "expl:")
                 THEN Scan(Tail(ls), cmd, Strip(SubSeq(l, 6, Len(l))))
                 ELSE Scan(Tail(ls), cmd, expl)
    IN Scan(all, None, None)

\* _extract_cmd_expl_from_response: <<cmd_line, expl_line>>
ExtractCmdExpl(s) ==
    LET raw == IF Truthy(s.last_codex_response) THEN s.last_codex_response ELSE ""
        all == SplitLines(raw)
        RECURSIVE NonEmpty(_)
        NonEmpty(ls) == IF ls = << >> THEN << >>
                        ELSE (IF Strip(Head(ls)) # "" THEN <<Strip(Head(ls))>> ELSE << >>)
                             \o NonEmpty(Tail(ls))
        lines == NonEmpty(all)
        RECURSIVE Scan(_, _, _)
        Scan(ls, cmd, expl) ==
            IF ls = << >> THEN <<cmd, expl>>
            ELSE LET l == Head(ls) IN
                 IF StartsWith(Lower(l), "cmd:")
                 THEN Scan(Tail(ls), Strip(SubSeq(l, 5, Len(l))), expl)
                 ELSE IF StartsWith(Lower(l), "expl:")
                 THEN Scan(Tail(ls), cmd, Strip(SubSeq(l, 6, Len(l))))
                 ELSE Scan(Tail(ls), cmd, expl)
        got == Scan(lines, None, None)
        cmd_line == IF got[1] = None /\ lines # << >> THEN lines[1] ELSE got[1]
        expl_line == IF got[2] = None /\ Len(lines) > 1 THEN lines[2] ELSE got[2]
    IN <<cmd_line, expl_line>>

\* The part of _voice_shell_request and of _voice_app_command_request after
\* _run_codex_prompt has returned (kind is "shell" or "voice").
RequestDone(s, kind) ==
    LET got == ExtractCmdExpl(s) IN
    IF Truthy(got[1])
    THEN LET expl == IF Truthy(got[2]) THEN got[2] ELSE ""
             s1 == [s EXCEPT !.pending_shell_command = got[1],
                             !.pending_shell_explanation = expl]
             s2 == PrintLine(s1, "[SHELL] Proposed " \o kind \o " command: " \o got[1])
             s3 == IF expl # "" THEN PrintLine(s2, "[SHELL] Explanation: " \o expl) ELSE s2
         IN Guided(Fx(s3, "proposed", got[1]),
                   IF expl # "" THEN expl ELSE "I have proposed a command.")
    ELSE LET s1 == [s EXCEPT !.pending_shell_command = None,
                             !.pending_shell_explanation = None]
         IN Guided(Fx(PrintLine(s1, "[SHELL] Could not extract a command from Codex response."),
                      "no_command", kind),
                   "I could not extract a command from the response.")

\* _voice_shell_request up to the end of _run_codex_prompt's wait
VoiceShellRequest(s) ==
    IF GetHistoryForShell(s) = << >> /\ Strip(s.prompt_text) = ""
    THEN Guided(PrintLine(s, "[SHELL] No history or prompt to analyze."),
                "There is no buffer or prompt yet.")
    ELSE RunCodexPrompt(
             Push([s EXCEPT !.pending_shell_explanation = None], "request_after", "shell"),
             "shell:" \o (IF Strip(s.prompt_text) # "" THEN Strip(s.prompt_text) ELSE "(none)"))

\* _voice_app_command_request up to the end of _run_codex_prompt's wait
VoiceAppCommandRequest(s) ==
    RunCodexPrompt(
        Push([s EXCEPT !.pending_shell_explanation = None], "request_after", "voice"),
        "voice:" \o (IF Strip(s.prompt_text) # "" THEN Strip(s.prompt_text) ELSE "(none)"))

\* n buffered lines, none of them empty
PrintN(s, n) == PrintLines(s, [i \in 1..n |-> Line])

\* _print_settings: twelve buffered lines
PrintSettings(s) == PrintN(s, 12)

\* _print_banner: fifty-two buffered lines
PrintBanner(s) == PrintN(s, 52)

\* ------------------------------------------------------------ number input

IsDigit(c) == \E i \in 1..10 : c = Ch(DigitChars, i)

DigitVal(c) == (CHOOSE i \in 1..10 : c = Ch(DigitChars, i)) - 1

RECURSIVE DigitsVal(_, _)
DigitsVal(ds, acc) == IF ds = "" THEN acc ELSE DigitsVal(Tail(ds), 10 * acc + DigitVal(Head(ds)))

AllDigits(ds) == \A i \in 1..Len(ds) : IsDigit(Ch(ds, i))

\* The position of the first "." of u, Len(u) + 1 where it has none
DotAt(u) ==
    IF \E i \in 1..Len(u) : Ch(u, i) = "."
    THEN CHOOSE i \in 1..Len(u) : Ch(u, i) = "." /\ \A j \in 1..(i - 1) : Ch(u, j) # "."
    ELSE Len(u) + 1

\* The value in hundredths of the digits ip before and fp after the point
Hundredths(ip, fp) ==
    100 * DigitsVal(ip, 0)
    + (IF Len(fp) = 0 THEN 0
       ELSE IF Len(fp) = 1 THEN 10 * DigitsVal(fp, 0) ELSE DigitsVal(fp, 0))

Decimal(neg, ip, fp) ==
    IF AllDigits(ip) /\ AllDigits(fp) /\ Len(ip) + Len(fp) > 0 /\ Len(fp) <= 2
    THEN [ok |-> TRUE,
          val |-> IF neg THEN 0 - Hundredths(ip, fp) ELSE Hundredths(ip, fp)]
    ELSE [ok |-> FALSE, val |-> 0]

Unsigned(neg, u, dot) == Decimal(neg, SubSeq(u, 1, dot - 1), SubSeq(u, dot + 1, Len(u)))

Signed(t, neg) == Unsigned(neg, IF neg THEN Tail(t) ELSE t, DotAt(IF neg THEN Tail(t) ELSE t))

Stripped(t) == Signed(t, t # "" /\ Head(t) = "-")

\* float(text) in hundredths, for decimal numerals of at most two decimals
\* (the only ones the inputs below hold); ok = FALSE where float() raises.
ParseFloat(text) == Stripped(Strip(text))

Whole(neg, u) ==
    IF u # "" /\ AllDigits(u)
    THEN [ok |-> TRUE, val |-> IF neg THEN 0 - DigitsVal(u, 0) ELSE DigitsVal(u, 0)]
    ELSE [ok |-> FALSE, val |-> 0]

StrippedInt(t) ==
    IF t # "" /\ Head(t) = "-" THEN Whole(TRUE, Tail(t)) ELSE Whole(FALSE, t)

\* int(text): ok = FALSE where int() raises
ParseInt(text) == StrippedInt(Strip(text))

Min(a, b) == IF a <= b THEN a ELSE b

Max(a, b) == IF a >= b THEN a ELSE b

\* The clamp without its upper bound
ClampSpeed_NoUpper(v) == Max(TTS_SPEED_MIN, v)

ClampSpeed(v) == Max(TTS_SPEED_MIN, Min(TTS_SPEED_MAX, v))

\* ------------------------------------------------------ voice-command handlers

\* _init_stt once the recognizer is loaded: start the two loops unless listening
InitStt(s) ==
    IF s.listening THEN PrintLine(s, "[VOICE] Already listening.")
    ELSE Fx(PrintLine([s EXCEPT !.listening = TRUE], "[VOICE] Listening started."),
            "start_loops", "")

Models == <<"gpt-5", "gpt-5-codex", "gpt-4.1", "gpt-4o">>

\* _handle_model_voice
HandleModelVoice(s, tail) ==
    LET idx == IF \E i \in 1..4 : Models[i] = s.current_model
               THEN CHOOSE i \in 1..4 : Models[i] = s.current_model
               ELSE 1
        toks == Split(tail)
        head == IF toks # << >> THEN toks[1] ELSE ""
        Set(m) == Guided(PrintLine([s EXCEPT !.current_model = m], "[VOICE] Model set to: " \o m),
                         "Model set to " \o m)
    IN IF head \in {"next", "forward"} THEN Set(Models[(idx % 4) + 1])
       ELSE IF head \in {"previous", "prev", "back"} THEN Set(Models[((idx + 2) % 4) + 1])
       ELSE IF \E i \in 1..4 : Models[i] = Strip(tail) THEN Set(Strip(tail))
       ELSE PrintLine(s, "[VOICE] Unknown model: " \o Strip(tail))

\* The end of _run_self_test: the health summary, spoken in guided mode
SelfTestFinish(s) == Guided(s, "Self test finished.")

RECURSIVE HandleWakeCommand(_, _)

\* _run_self_test: the handlers the voice part calls, in order; << >> stands
\* for the simulated dictation fragment between 'prompt' and 'done'
SelfTestCommands ==
    << <<"settings">>, <<"prompt">>, << >>, <<"done">>, <<"mode", "guided">>,
       <<"mode", "unguided">>, <<"speed", "1">>, <<"speed", "increase">> >>

RECURSIVE SelfTestCalls(_, _)
SelfTestCalls(s, i) ==
    IF i > Len(SelfTestCommands) THEN s
    ELSE SelfTestCalls(IF SelfTestCommands[i] = << >>
                       THEN [s EXCEPT !.prompt_text = @ \o " self-test prompt fragment"]
                       ELSE HandleWakeCommand(s, SelfTestCommands[i]),
                       i + 1)

\* _run_self_test: the voice part, internal handlers only
SelfTestVoice(s, mode) ==
    IF mode \in {"voice", "both"} THEN SelfTestCalls(s, 1) ELSE s

\* _run_self_test: the suggestion request on two seeded history lines; the old
\* prompt is restored when the request has returned
SelfTestRequest(s) ==
    VoiceShellRequest(
        [Push(s, "selftest_after", s.prompt_text)
            EXCEPT !.prompt_text = "Summarize and suggest next maintenance command."])

\* _run_self_test: the shell part, then the health summary
SelfTestShell(s, mode) ==
    IF mode \in {"shell", "both"} THEN SelfTestRequest(PrintN(s, 2)) ELSE SelfTestFinish(s)

\* _run_self_test(mode)
RunSelfTest(s, mode) ==
    SelfTestShell(SelfTestVoice(Guided(s, "Starting self test for " \o mode \o " systems."),
                                mode),
                  mode)

\* _handle_wake_command(tokens); its finally-clause prints the status unbuffered
HandleWakeCommand(s, tokens) ==
    IF tokens = << >> THEN s
    ELSE
    LET head == tokens[1]
        n == Len(tokens)
        w0 == Fx(s, "wake", Join(tokens, " "))
    IN
    IF head = "mode" /\ n >= 2 THEN
        IF FuzzyIn(tokens[2], GetGuidedVariants(w0), FuzzyThreshold)
        THEN Guided(PrintLine([w0 EXCEPT !.guided_mode = TRUE], "[VOICE] Mode set to Guided."),
                    "Guided mode enabled.")
        ELSE IF FuzzyIn(tokens[2], GetUnguidedVariants(w0), FuzzyThreshold)
        THEN Speak(PrintLine([w0 EXCEPT !.guided_mode = FALSE], "[VOICE] Mode set to Unguided."),
                   "Unguided mode enabled.")
        ELSE Guided(PrintLine(w0, "[VOICE] Could not understand mode setting."),
                    "I did not catch guided or unguided.")
    ELSE IF head = "settings" THEN
        Guided(PrintSettings(w0), "Here are your current settings.")
    ELSE IF head = "prompt" THEN
        Guided(PrintLine([w0 EXCEPT !.prompt_capture = TRUE], "[VOICE] Prompt editing enabled."),
               "Prompt editing enabled.")
    ELSE IF head \in {"done", "enter"} THEN
        IF w0.prompt_capture
        THEN Guided(PrintLine([w0 EXCEPT !.prompt_capture = FALSE],
                              "[VOICE] Prompt editing finished."),
                    "Prompt editing finished.")
        ELSE PrintLine(w0, "[VOICE] No prompt is currently being edited.")
    ELSE IF head = "reasoning" /\ n >= 2 THEN
        LET levels == <<"none", "low", "medium", "high">>
            hit == {i \in 1..4 : FuzzyIn(tokens[2], <<levels[i]>>, FuzzyThreshold)}
        IN IF hit # {}
           THEN LET lv == levels[CHOOSE i \in hit : \A j \in hit : i <= j] IN
                Guided(PrintLine([w0 EXCEPT !.current_reasoning = lv],
                                 "[VOICE] Reasoning set to: " \o lv),
                       "Reasoning set to " \o lv)
           ELSE Guided(PrintLine(w0, "[VOICE] Could not match reasoning level."),
                       "I could not match that reasoning level.")
    ELSE IF head = "model" THEN
        IF n >= 2 THEN HandleModelVoice(w0, Join(Tail(tokens), " ")) ELSE w0
    ELSE IF head = "buffer" THEN
        IF n = 1 THEN PrintLine(w0, "[VOICE] Buffer mode: " \o w0.buffer_mode)
        ELSE IF tokens[2] = "clear"
        THEN ReadLen(Push([w0 EXCEPT !.buffer_mode = "anchor"], "wake_anchor_after", ""),
                     "anchor")
        ELSE IF tokens[2] = "session"
        THEN Guided(PrintLine([w0 EXCEPT !.buffer_mode = "session"],
                              "[VOICE] Buffer mode set to session."),
                    "Using the full session history for shell commands.")
        ELSE IF tokens[2] = "last"
        THEN Guided(PrintLine([w0 EXCEPT !.buffer_mode = "last"],
                              "[VOICE] Buffer mode set to last."),
                    "Using only history since the last response or executed command.")
        ELSE Guided(PrintLine(w0, "[VOICE] Unknown buffer setting."),
                    "Say buffer clear, buffer session, or buffer last.")
    ELSE IF head = "history" THEN
        Guided(PrintHistoryPreview(w0),
               "Showing a preview of the buffer I will send for shell commands.")
    ELSE IF head = "shell" /\ n >= 2 /\ tokens[2] = "command" THEN
        VoiceShellRequest(Guided(PrintLine(w0, "[VOICE] Shell command: sending buffer."),
                                 "Analyzing your shell history and prompt."))
    ELSE IF head = "voice" /\ n >= 2 /\ tokens[2] = "command" THEN
        VoiceAppCommandRequest(Guided(PrintLine(w0, "[VOICE] Voice command: asking Codex."),
                                      "Analyzing your context."))
    ELSE IF head = "voice" /\ n >= 2 /\ tokens[2] = "shell" THEN
        VoiceShellRequest(Guided(PrintLine(w0, "[VOICE] (Alias) Shell command."),
                                 "Analyzing your shell history and prompt."))
    ELSE IF head \in {"execute", "exec"} THEN
        IF ~Truthy(w0.pending_shell_command)
        THEN Guided(PrintLine(w0, "[VOICE] No pending command to execute."),
                    "There is no pending command.")
        ELSE Guided(Fx(PrintLine([w0 EXCEPT !.confirm_mode = "exec"],
                                 "[CONFIRM] Execute: " \o w0.pending_shell_command),
                       "ask_exec", w0.pending_shell_command),
                    "Do you want me to run this command? Say yes or no.")
    ELSE IF head = "repeat" THEN
        IF ~Truthy(w0.prompt_text)
        THEN Guided(PrintLine(w0, "[VOICE] No prompt to repeat."), "There is no current prompt.")
        ELSE Speak(PrintLine(w0, "[PROMPT] " \o w0.prompt_text), w0.prompt_text)
    ELSE IF FuzzyIn(head, <<"respond", "response", "reply">>, FuzzyThreshold) THEN
        LET expl == IF Truthy(w0.pending_shell_explanation) THEN w0.pending_shell_explanation
                    ELSE w0.last_codex_response
        IN IF ~Truthy(expl)
           THEN Guided(PrintLine(w0, "[VOICE] No response available to read."),
                       "There is no response yet.")
           ELSE Speak(PrintLine(w0, "[RESP] " \o expl), expl)
    ELSE IF head = "help" THEN
        Speak(w0, "voice help")
    ELSE IF head = "exit" THEN
        Speak(PrintLine([w0 EXCEPT !.confirm_mode = "exit"], "[CONFIRM] Exit voice shell?"),
              "Do you want to exit the voice shell? Say yes or no.")
    ELSE IF head = "stop" /\ n >= 2 /\ tokens[2] = "listening" THEN
        Guided(PrintLine([w0 EXCEPT !.listening = FALSE], "[VOICE] Stop listening requested."),
               "Stopping listening.")
    ELSE IF head = "listen" \/ (head = "start" /\ n >= 2 /\ tokens[2] = "listening") THEN
        Guided(InitStt(w0), "Listening enabled.")
    ELSE IF head = "speed" THEN
        IF n = 1
        THEN Guided(PrintLine(w0, "[VOICE] Current TTS speed"), "My speaking speed")
        ELSE LET arg == tokens[2]
                 num == ParseFloat(arg)
                 Set(v) == Guided(PrintLine([w0 EXCEPT !.tts_speed = v], "[VOICE] TTS speed set"),
                                  "Speaking speed set")
             IN IF arg \in {"increase", "up", "faster"}
                THEN Set(Min(TTS_SPEED_MAX, w0.tts_speed + TTS_SPEED_STEP))
                ELSE IF arg \in {"decrease", "down", "slower"}
                THEN Set(Max(TTS_SPEED_MIN, w0.tts_speed - TTS_SPEED_STEP))
                ELSE IF num.ok THEN Set(ClampSpeed(num.val))
                ELSE Guided(PrintLine(w0, "[VOICE] Could not parse speed"),
                            "I did not understand that speed value.")
    ELSE IF head \in {"color", "style", "ui"} /\ n >= 2 THEN
        IF tokens[2] \in {"on", "enable", "enabled", "fancy"}
        THEN IF w0.colorama
             THEN Guided(PrintLine([w0 EXCEPT !.use_color = TRUE],
                                   "[VOICE] Fancy colored output enabled."),
                         "Fancy colored output enabled.")
             ELSE PrintLine(w0, "[VOICE] Colorama not available; cannot enable fancy mode.")
        ELSE IF tokens[2] \in {"off", "disable", "disabled", "plain"}
        THEN Guided(PrintLine([w0 EXCEPT !.use_color = FALSE],
                              "[VOICE] Fancy colored output disabled."),
                    "Fancy colored output disabled.")
        ELSE w0
    ELSE IF head = "debug" /\ n >= 2 THEN
        IF tokens[2] \in {"on", "enable"}
        THEN Guided(PrintLine([w0 EXCEPT !.debug_enabled = TRUE, !.logger_debug = TRUE],
                              "[VOICE] Debug logging enabled."),
                    "Debug logging is on.")
        ELSE IF tokens[2] \in {"off", "disable"}
        THEN Guided(PrintLine([w0 EXCEPT !.debug_enabled = FALSE, !.logger_debug = FALSE],
                              "[VOICE] Debug logging disabled."),
                    "Debug logging is off.")
        ELSE w0
    ELSE IF head = "save" /\ n >= 2 /\ tokens[2] = "recordings" THEN
        Guided(PrintLine([w0 EXCEPT !.confirm_mode = "save_recordings"],
                         "[CONFIRM] Save recordings?"),
               "Would you like to enable saving recordings? Say yes or no.")
    ELSE IF head = "log" THEN
        Guided(PrintLine([w0 EXCEPT !.confirm_mode = "save_prompts"], "[CONFIRM] Logging?"),
               "Would you like to enable logging prompts and responses? Say yes or no.")
    ELSE IF head = "save" /\ n = 1 THEN
        Guided(PrintLine([w0 EXCEPT !.confirm_mode = "save_settings"],
                         "[CONFIRM] Save current settings?"),
               "Save current settings so they load automatically next time? Say yes or no.")
    ELSE IF head = "rename" /\ n >= 2 THEN
        LET new_name == Strip(Join(Tail(tokens), " ")) IN
        IF new_name = "" THEN PrintLine(w0, "[VOICE] Please provide a name to rename to.")
        ELSE Guided(PrintLine(Fx(AddAliases([w0 EXCEPT !.assistant_name = new_name],
                                            "wake", <<new_name>>),
                                 "profile_save", ""),
                              "[VOICE] Assistant renamed to: " \o new_name),
                    "You can now call me " \o new_name)
    ELSE IF head = "run" THEN
        IF ~Truthy(w0.prompt_text)
        THEN Guided(PrintLine(w0, "[VOICE] No prompt to run."), "There is no prompt to run.")
        ELSE LET r1 == Guided(PrintLine(w0, "[VOICE] Running prompt via Codex."),
                              "Running your prompt.")
             IN RunCodexPrompt([r1 EXCEPT !.pending_shell_explanation = None], r1.prompt_text)
    ELSE IF \/ head = "test" /\ n >= 2 /\ tokens[2] \in {"voice", "shell", "both"}
            \/ head = "self" /\ n >= 2 /\ tokens[2] \in {"directed", "direct"}
    THEN RunSelfTest(w0, IF head = "test" THEN tokens[2] ELSE "both")
    ELSE Guided(PrintLine(w0, "[VOICE] Unknown command: " \o Join(tokens, " ")),
                "I did not recognize that command.")

\* ------------------------------------------------------ typed v- commands

\* terminal_buffer.clear(), the notice, then the two indices (v-clear and the
\* run loop's clear): the anchor is read first, the last-action index after it
ClearBuffer(s, notice) ==
    LET c1 == PrintLine(Fx([s EXCEPT !.terminal_buffer = << >>], "buffer_clear", ""), notice)
    IN ReadLen(Push(c1, "clear_after", ""), "anchor")

Affirmative == {"y", "yes", "confirm"}

\* _handle_typed_voice_command(line), up to the first input() it makes
HandleTypedVoiceCommand(s, line) ==
    LET cmd == Strip(SubSeq(line, 3, Len(line))) IN
    IF cmd = "" THEN s
    ELSE
    LET parts == Split(cmd)
        key == parts[1]
        n == Len(parts)
        t0 == Fx(s, "typed", cmd)
    IN
    IF key = "help" THEN PrintBanner(t0)
    ELSE IF key = "settings" THEN PrintSettings(t0)
    ELSE IF key = "guided-on" THEN
        PrintLine([t0 EXCEPT !.guided_mode = TRUE], "[CMD] Guided mode enabled.")
    ELSE IF key = "guided-off" THEN
        PrintLine([t0 EXCEPT !.guided_mode = FALSE], "[CMD] Guided mode disabled.")
    ELSE IF key = "debug" THEN
        PrintLine([t0 EXCEPT !.debug_enabled = ~t0.debug_enabled,
                             !.logger_debug = ~t0.debug_enabled], "[CMD] Debug logging")
    ELSE IF key = "saveprompts-on" THEN
        PrintLine([t0 EXCEPT !.save_prompts = TRUE, !.logger_session = TRUE],
                  "[CMD] Prompt/response logging enabled.")
    ELSE IF key = "saveprompts-off" THEN
        PrintLine([t0 EXCEPT !.save_prompts = FALSE, !.logger_session = FALSE],
                  "[CMD] Prompt/response logging disabled.")
    ELSE IF key = "recordspeech-on" THEN
        PrintLine([t0 EXCEPT !.save_recordings = TRUE],
                  "[CMD] Recording of speech responses enabled.")
    ELSE IF key = "recordspeech-off" THEN
        PrintLine([t0 EXCEPT !.save_recordings = FALSE],
                  "[CMD] Recording of speech responses disabled.")
    ELSE IF key = "recordings" THEN
        PrintLine([t0 EXCEPT !.save_recordings = ~t0.save_recordings], "[CMD] Save recordings")
    ELSE IF key = "logprompts" THEN
        PrintLine([t0 EXCEPT !.save_prompts = ~t0.save_prompts,
                             !.logger_session = ~t0.save_prompts], "[CMD] Log prompts/responses")
    ELSE IF key = "voice" /\ n >= 2 THEN
        LET num == ParseInt(parts[2]) IN
        IF num.ok /\ num.val - 1 >= 0
        THEN PrintLine([t0 EXCEPT !.voice_index = num.val - 1], "[CMD] Voice index set")
        ELSE PrintLine(t0, "[CMD] Usage: v-voice N (1-based index)")
    ELSE IF key = "rename" /\ n >= 2 THEN
        LET joined == Strip(Join(Tail(parts), " "))
            RECURSIVE LQ(_)
            LQ(x) == IF x # "" /\ Head(x) = "\"" THEN LQ(Tail(x)) ELSE x
            RECURSIVE RQ(_)
            RQ(x) == IF x # "" /\ Ch(x, Len(x)) = "\"" THEN RQ(SubSeq(x, 1, Len(x) - 1)) ELSE x
            new_name == RQ(LQ(joined))
        IN IF new_name = "" THEN PrintLine(t0, "[CMD] Usage: v-rename <name>")
           ELSE PrintLine(Fx(AddAliases([t0 EXCEPT !.assistant_name = new_name],
                                        "wake", <<new_name>>),
                             "profile_save", ""),
                          "[CMD] Assistant renamed to: " \o new_name)
    ELSE IF key = "model" /\ n >= 2 THEN
        PrintLine([t0 EXCEPT !.current_model = parts[2]], "[CMD] Model set to: " \o parts[2])
    ELSE IF key = "reasoning" /\ n >= 2 THEN
        PrintLine([t0 EXCEPT !.current_reasoning = parts[2]], "[CMD] Reasoning set to")
    ELSE IF key \in {"shell", "command"} THEN VoiceShellRequest(t0)
    ELSE IF key \in {"voicecmd", "voice-command", "voicecommand"} THEN VoiceAppCommandRequest(t0)
    ELSE IF key = "prompt" THEN
        Push(PrintLine(PrintLine([t0 EXCEPT !.prompt_capture = TRUE],
                                 "[CMD] Prompt editing enabled. Current prompt is:"),
                       IF Truthy(t0.prompt_text) THEN t0.prompt_text ELSE "<empty>"),
             "prompt_input", "")
    ELSE IF key = "exec" THEN
        IF ~Truthy(t0.pending_shell_command) THEN PrintLine(t0, "[CMD] No pending command.")
        ELSE Push(Fx(PrintLine(t0, "[CONFIRM] Execute: " \o t0.pending_shell_command),
                     "ask_exec", t0.pending_shell_command),
                  "exec_input", t0.pending_shell_command)
    ELSE IF key = "clear" THEN
        ClearBuffer(t0, "[CMD] Buffer cleared.")
    ELSE IF key = "repeat" THEN
        IF ~Truthy(t0.prompt_text) THEN PrintLine(t0, "[CMD] No prompt to repeat.")
        ELSE Speak(PrintLine(t0, "[PROMPT] " \o t0.prompt_text), t0.prompt_text)
    ELSE IF key = "respond" THEN
        LET expl == IF Truthy(t0.pending_shell_explanation) THEN t0.pending_shell_explanation
                    ELSE t0.last_codex_response
        IN IF ~Truthy(expl) THEN PrintLine(t0, "[CMD] No response available.")
           ELSE Speak(PrintLine(t0, "[RESP] " \o expl), expl)
    ELSE IF key = "fancy-on" THEN
        IF t0.colorama
        THEN PrintLine([t0 EXCEPT !.use_color = TRUE], "[CMD] Fancy colored output enabled.")
        ELSE PrintLine(t0, "[CMD] Colorama not available; cannot enable fancy mode.")
    ELSE IF key = "fancy-off" THEN
        PrintLine([t0 EXCEPT !.use_color = FALSE], "[CMD] Fancy colored output disabled.")
    ELSE IF key = "speed" /\ n >= 2 THEN
        LET num == ParseFloat(parts[2]) IN
        IF num.ok THEN PrintLine([t0 EXCEPT !.tts_speed = ClampSpeed(num.val)],
                                 "[CMD] TTS speed set")
        ELSE PrintLine(t0, "[CMD] Usage: v-speed 1.0 (range 0.5 - 2.0)")
    ELSE IF key = "buffer" THEN
        IF n = 1 THEN PrintLine(t0, "[CMD] Buffer mode: " \o t0.buffer_mode)
        ELSE IF parts[2] = "clear"
        THEN ReadLen(Push([t0 EXCEPT !.buffer_mode = "anchor"], "typed_anchor_after", ""),
                     "anchor")
        ELSE IF parts[2] = "session"
        THEN PrintLine([t0 EXCEPT !.buffer_mode = "session"], "[CMD] Buffer mode set to session.")
        ELSE IF parts[2] = "last"
        THEN PrintLine([t0 EXCEPT !.buffer_mode = "last"], "[CMD] Buffer mode set to last.")
        ELSE PrintLine(t0, "[CMD] Usage: v-buffer clear|session|last")
    ELSE IF key = "history" THEN PrintHistoryPreview(t0)
    ELSE IF key = "listen" THEN InitStt(t0)
    ELSE IF key = "save" THEN
        Push(PrintLine(t0, "[CONFIRM] Save current settings to disk?"), "save_input", "")
    ELSE IF key = "exit" THEN
        Push(PrintLine(t0, "[CONFIRM] Exit voice shell? (y/N)?"), "exit_input", "")
    ELSE PrintLine(t0, "[CMD] Unknown v- command: " \o cmd)

\* How a proposed command is run once accepted (_apply_confirm_decision and
\* the v-exec branch hold the same dispatch): v- command, wake command, or shell.
DispatchProposed(s, cmd) ==
    LET e == Fx(PrintLine(s, "[EXEC] Running: " \o cmd), "exec", cmd) IN
    IF StartsWith(cmd, "v-") THEN HandleTypedVoiceCommand(e, cmd)
    ELSE LET toks == Split(cmd) IN
         IF toks # << >> /\ Lower(toks[1]) = Lower(e.assistant_name)
         THEN HandleWakeCommand(e, Tokenize(Join(Tail(toks), " ")))
         ELSE RunShellCommand(e, cmd)

\* ----------------------------------------------------------- confirmation

\* as the declined branch, with a declined request to save recordings granted
ConfirmDeclined_StillEnables(s) ==
    Guided(PrintLine([s EXCEPT !.save_recordings = TRUE], "[CONFIRM] Cancelled."), "Cancelled.")

\* as the declined branch, with the proposed command dropped as well
ConfirmDeclined_DropsPending(s) ==
    Guided(PrintLine([s EXCEPT !.pending_shell_command = None,
                               !.pending_shell_explanation = None],
                     "[CONFIRM] Cancelled."), "Cancelled.")

\* as the declined branch, with the settings written all the same
ConfirmDeclined_SavesAnyway(s) ==
    SaveSettings(Guided(PrintLine(s, "[CONFIRM] Cancelled."), "Cancelled."))

\* as the declined branch, with the question left open
ConfirmDeclined_KeepsAsking(s) ==
    Guided(PrintLine([s EXCEPT !.confirm_mode = "exec"], "[CONFIRM] Cancelled."), "Cancelled.")

\* _apply_confirm_decision: the branch of a declined confirmation
ConfirmDeclined(s) == Guided(PrintLine(s, "[CONFIRM] Cancelled."), "Cancelled.")

\* as the decision, with an accepted exit serving a save request as well
ApplyConfirmDecision_ServesBoth(s, accepted) ==
    LET mode == s.confirm_mode
        c0 == Fx([s EXCEPT !.confirm_mode = None], "decision",
                 IF accepted THEN "accepted" ELSE "declined")
    IN
    IF ~Truthy(mode) THEN [s EXCEPT !.confirm_mode = None]
    ELSE IF ~accepted THEN ConfirmDeclined(c0)
    ELSE IF mode = "exec" /\ Truthy(c0.pending_shell_command) THEN
        DispatchProposed(Push(c0, "confirm_exec_after", ""), Strip(c0.pending_shell_command))
    ELSE IF mode = "clear" THEN
        Guided(PrintLine(Fx([c0 EXCEPT !.terminal_buffer = << >>], "buffer_clear", ""),
                         "[SHELL] Buffer cleared."),
               "Cleared the buffer.")
    ELSE IF mode = "exit" THEN
        Guided(PrintLine(SaveSettings([c0 EXCEPT !.exit_requested = TRUE,
                                                 !.listening = FALSE]),
                         "[SHELL] Exit confirmed."),
               "Exiting voice shell.")
    ELSE IF mode = "save_settings" THEN
        Guided(SaveSettings(c0), "Settings saved.")
    ELSE IF mode = "save_recordings" THEN
        Guided(PrintLine([c0 EXCEPT !.save_recordings = TRUE],
                         "[VOICE] Saving recordings enabled."),
               "I will save future speech recordings.")
    ELSE IF mode = "save_prompts" THEN
        Guided(PrintLine([c0 EXCEPT !.save_prompts = TRUE, !.logger_session = TRUE],
                         "[VOICE] Prompt and response logging enabled."),
               "I will log prompts and responses.")
    ELSE c0

\* _apply_confirm_decision(accepted), up to the point where the accepted
\* command blocks or returns; the rest of the exec branch is AfterFrame.
ApplyConfirmDecision(s, accepted) ==
    LET mode == s.confirm_mode
        c0 == Fx([s EXCEPT !.confirm_mode = None], "decision",
                 IF accepted THEN "accepted" ELSE "declined")
    IN
    IF ~Truthy(mode) THEN [s EXCEPT !.confirm_mode = None]
    ELSE IF ~accepted THEN ConfirmDeclined(c0)
    ELSE IF mode = "exec" /\ Truthy(c0.pending_shell_command) THEN
        DispatchProposed(Push(c0, "confirm_exec_after", ""), Strip(c0.pending_shell_command))
    ELSE IF mode = "clear" THEN
        Guided(PrintLine(Fx([c0 EXCEPT !.terminal_buffer = << >>], "buffer_clear", ""),
                         "[SHELL] Buffer cleared."),
               "Cleared the buffer.")
    ELSE IF mode = "exit" THEN
        Guided(PrintLine([c0 EXCEPT !.exit_requested = TRUE, !.listening = FALSE],
                         "[SHELL] Exit confirmed."),
               "Exiting voice shell.")
    ELSE IF mode = "save_settings" THEN
        Guided(SaveSettings(c0), "Settings saved.")
    ELSE IF mode = "save_recordings" THEN
        Guided(PrintLine([c0 EXCEPT !.save_recordings = TRUE],
                         "[VOICE] Saving recordings enabled."),
               "I will save future speech recordings.")
    ELSE IF mode = "save_prompts" THEN
        Guided(PrintLine([c0 EXCEPT !.save_prompts = TRUE, !.logger_session = TRUE],
                         "[VOICE] Prompt and response logging enabled."),
               "I will log prompts and responses.")
    ELSE c0

\* as _handle_confirm_voice, every head that is not a no taken for a yes
HandleConfirmVoice_NotNoIsYes(s, tokens) ==
    ApplyConfirmDecision(s, ~FuzzyIn(tokens[1], GetNoVariants(s), FuzzyThreshold))

\* as _handle_confirm_voice, a wake command heard instead of yes or no dispatched
HandleConfirmVoice_WakeFirst(s, tokens) ==
    IF \/ FuzzyIn(tokens[1], GetYesVariants(s), FuzzyThreshold)
       \/ FuzzyIn(tokens[1], GetNoVariants(s), FuzzyThreshold)
    THEN ApplyConfirmDecision(s, FuzzyIn(tokens[1], GetYesVariants(s), FuzzyThreshold))
    ELSE IF FuzzyIn(tokens[1], GetWakeVariants(s), FuzzyThreshold) /\ Len(tokens) > 1
    THEN HandleWakeCommand(s, Tail(tokens))
    ELSE Guided(s, "Please say yes or no.")

\* _handle_confirm_voice(tokens)
HandleConfirmVoice(s, tokens) ==
    IF \/ FuzzyIn(tokens[1], GetYesVariants(s), FuzzyThreshold)
       \/ FuzzyIn(tokens[1], GetNoVariants(s), FuzzyThreshold)
    THEN ApplyConfirmDecision(s, FuzzyIn(tokens[1], GetYesVariants(s), FuzzyThreshold))
    ELSE Guided(s, "Please say yes or no.")

\* _handle_voice_text(text)
HandleVoiceText(s, text) ==
    LET tokens == Tokenize(text) IN
    IF tokens = << >> THEN s
    ELSE IF Truthy(s.confirm_mode) THEN HandleConfirmVoice(s, tokens)
    ELSE
    LET wake_variants == GetWakeVariants(s)
        is_wake == FuzzyIn(tokens[1], wake_variants, FuzzyThreshold)
    IN
    IF s.prompt_capture /\ ~is_wake THEN
        IF Len(tokens) = 1 /\ tokens[1] \in {"done", "enter"}
        THEN Guided(PrintLine([s EXCEPT !.prompt_capture = FALSE],
                              "[VOICE] Prompt editing finished."),
                    "Prompt editing finished.")
        ELSE LET fragment == Join(tokens, " ") IN
             PrintLine([s EXCEPT !.prompt_text =
                            (IF Truthy(@) THEN @ \o " " ELSE @) \o fragment],
                       "[PROMPT+] " \o fragment)
    ELSE IF is_wake THEN
        IF Len(tokens) = 1 THEN Guided(s, "Yes? I'm " \o s.assistant_name \o ".")
        ELSE HandleWakeCommand(s, Tail(tokens))
    ELSE s

\* _handle_vosk_result: the recognizer's text, fillers dropped
HandleVoskResult(s, heard) ==
    LET text == Strip(heard) IN
    IF text = "" \/ Lower(text) \in {"huh", "uh", "um"} THEN s
    ELSE HandleVoiceText(s, text)

\* ------------------------------------------------- frames and continuations

InputFrames == {"prompt_input", "exec_input", "save_input", "exit_input", "quit_input"}

\* An exception leaves every handler of the thread (AttributeError of
\* None.strip() in the v-exec branch).
Raise(s, what) == Fx([s EXCEPT !.stack = << >>], "exception", what)

\* What a handler does with the line its input() returns (frame already popped).
AfterInput(s, frame, line) ==
    LET ans == Lower(Strip(line)) IN
    IF frame.f = "prompt_input" THEN
        IF Strip(line) # ""
        THEN PrintLine([s EXCEPT !.prompt_text = line], "[CMD] Prompt set to: " \o line)
        ELSE s
    ELSE IF frame.f = "exec_input" THEN
        IF ans \in Affirmative
        THEN IF s.pending_shell_command = None THEN Raise(s, "AttributeError")
             ELSE DispatchProposed(Push(s, "typed_exec_after", ""),
                                   Strip(s.pending_shell_command))
        ELSE PrintLine(s, "[CONFIRM] Cancelled.")
    ELSE IF frame.f = "save_input" THEN
        IF ans \in Affirmative THEN SaveSettings(s)
        ELSE PrintLine(s, "[CONFIRM] Settings save cancelled.")
    ELSE IF frame.f = "exit_input" THEN
        IF ans \in Affirmative
        THEN PrintLine([s EXCEPT !.exit_requested = TRUE, !.listening = FALSE],
                       "[SHELL] Exit requested.")
        ELSE PrintLine(s, "[CONFIRM] Exit cancelled.")
    ELSE \* quit_input: the run loop's own exit/quit prompt
        IF ans \in Affirmative THEN Fx(PrintLine(s, "[SHELL] Goodbye."), "break", "")
        ELSE PrintLine(s, "[CONFIRM] Exit cancelled.")

\* What a handler does once the call it made has returned (frame already popped).
AfterFrame(s, frame) ==
    IF frame.f \in {"typed_exec_after", "confirm_exec_after"} THEN
        LET a1 == [s EXCEPT !.pending_shell_command = None, !.pending_shell_explanation = None]
        IN IF frame.f = "confirm_exec_after"
           THEN Guided(a1, "Executed the recommended command.")
           ELSE a1
    ELSE IF frame.f = "request_after" THEN RequestDone(s, frame.arg)
    ELSE IF frame.f = "codex_after" THEN Guided(s, "Response ready.")
    ELSE IF frame.f = "wake_anchor_after" THEN
        Guided(PrintLine(s, "[VOICE] Buffer anchor set."),
               "Buffer cleared for shell commands. I will use only new history.")
    ELSE IF frame.f = "typed_anchor_after"
    THEN Fx(PrintLine(s, "[CMD] Buffer anchor set."), "anchor_set", "typed")
    ELSE IF frame.f = "clear_after" THEN ReadLen(s, "last")
    ELSE \* selftest_after: restore the prompt, then the summary
        SelfTestFinish([s EXCEPT !.prompt_text = frame.arg])

WaitFrames == InputFrames \cup {"codex_wait", "shell_wait", "store_index"}

\* Run the returned-to handlers until the thread blocks again or is idle.
RECURSIVE Unwind(_)
Unwind(s) ==
    IF s.stack = << >> \/ Head(s.stack).f \in WaitFrames THEN s
    ELSE Unwind(AfterFrame([s EXCEPT !.stack = Tail(@)], Head(s.stack)))

\* ------------------------------------------------ the word store of alice.py

\* str.strip(chars) for a set of characters
RECURSIVE LStripChars(_, _)
LStripChars(s, chars) ==
    IF s # "" /\ Ch(s, 1) \in chars THEN LStripChars(Tail(s), chars) ELSE s

RECURSIVE RStripChars(_, _)
RStripChars(s, chars) ==
    IF s # "" /\ Ch(s, Len(s)) \in chars
    THEN RStripChars(SubSeq(s, 1, Len(s) - 1), chars) ELSE s

StripChars(s, chars) == RStripChars(LStripChars(s, chars), chars)

\* The characters _fuzzy strips: " ,.!?'\""
FuzzyStrip == {" ", ",", ".", "!", "?", "'", "\""}

\* CodexVoiceGUI._fuzzy(word, targets, threshold)
Fuzzy(word, targets, pct) ==
    LET word_norm == StripChars(Lower(word), FuzzyStrip) IN
    /\ word # ""
    /\ word_norm # ""
    /\ \/ pct <= 0
       \/ \E i \in 1..Len(targets) :
              LET t_norm == StripChars(Lower(targets[i]), FuzzyStrip) IN
              t_norm # "" /\ RatioAtLeast(word_norm, t_norm, pct)

\* str.replace(sub, "")
RECURSIVE RemoveAll(_, _)
RemoveAll(s, sub) ==
    IF s = "" THEN ""
    ELSE IF StartsWith(s, sub) THEN RemoveAll(SubSeq(s, Len(sub) + 1, Len(s)), sub)
    ELSE Ch(s, 1) \o RemoveAll(Tail(s), sub)

\* The characters in the order of their code points
CodePoints == " !\"',.0123456789:?ABCDEFGHIJKLMNOPQRSTUVWXYZabcdefghijklmnopqrstuvwxyz{}"

CodePoint(c) == CHOOSE i \in 1..Len(CodePoints) : Ch(CodePoints, i) = c

\* a < b for two strings
RECURSIVE StrLess(_, _)
StrLess(a, b) ==
    IF b = "" THEN FALSE
    ELSE IF a = "" THEN TRUE
    ELSE IF Ch(a, 1) = Ch(b, 1) THEN StrLess(Tail(a), Tail(b))
    ELSE CodePoint(Ch(a, 1)) < CodePoint(Ch(b, 1))

\* sorted(a set of strings)
RECURSIVE Sorted(_)
Sorted(S) ==
    IF S = {} THEN << >>
    ELSE LET m == CHOOSE x \in S : \A y \in S \ {x} : StrLess(x, y)
         IN <<m>> \o Sorted(S \ {m})

SeqToSet(seq) == {seq[i] : i \in 1..Len(seq)}

COMMAND_PHRASES ==
    <<"{name} prompt", "{name} enter", "{name} run", "{name} respond", "{name} pause",
      "{name} continue", "{name} stop", "{name} stop listening", "{name} mode guided",
      "{name} mode unguided", "{name} model next", "{name} model previous",
      "{name} reasoning high", "{name} reasoning low", "{name} clear", "{name} help",
      "confirm", "cancel", "yes", "no", "yeah", "hell yes">>

\* A word as _init_vocab_from_commands, ensure_word, load and import create it
NewWord == [aliases |-> {}, last_calibrated |-> None, status |-> "Uncalibrated"]

\* _init_vocab_from_commands: the words of the command phrases, and yes/no/yeah/hell
InitVocab ==
    LET Tokens(phrase) == Split(Lower(Strip(RemoveAll(phrase, "{name}"))))
        Clean(t) == StripChars(t, {" ", ",", ".", "!", "?", "'", "\""})
        base_words == (UNION {{Clean(t) : t \in SeqToSet(Tokens(COMMAND_PHRASES[i]))} :
                                 i \in 1..Len(COMMAND_PHRASES)}) \ {""}
    IN [w \in base_words \cup {"yes", "no", "yeah", "hell"} |-> NewWord]

\* VoiceProfile(target_samples = 3) with no profile on disk; besides the
\* object's fields: the exported file, the clock of utcnow(), the exception
\* the last call raised, and the object as it was when exported
NewStore ==
    [target_samples |-> 3, words |-> InitVocab, has_file |-> FALSE, file |-> None,
     at_export |-> None, clock |-> 1, raised |-> None, calls |-> 0]

\* datetime.utcnow().isoformat() + "Z"
UtcNow(st) == "T" \o ToString(st.clock)

\* ensure_word(word)
EnsureWord(st, word) ==
    LET w == Lower(Strip(word)) IN
    IF w = "" \/ w \in DOMAIN st.words THEN st
    ELSE [st EXCEPT !.words = @ @@ (w :> NewWord)]

\* _compute_status_for_word(word)
ComputeStatusForWord(st, word) ==
    LET meta == st.words[word]
        n == Cardinality(meta.aliases)
    IN IF n = 0 THEN "Uncalibrated"
       ELSE IF n < st.target_samples THEN "Partial"
       ELSE IF Truthy(meta.status) THEN meta.status ELSE "Calibrated"

KeyError(st) == [st EXCEPT !.raised = "KeyError"]

\* get_status(word): stores the status it returns
GetStatus(st, word) ==
    IF word \notin DOMAIN st.words THEN KeyError(st)
    ELSE [st EXCEPT !.words[word].status = ComputeStatusForWord(st, word)]

\* for w in self.words: status = _compute_status_for_word(w)
RecomputeAll(st) ==
    [st EXCEPT !.words = [w \in DOMAIN st.words |->
                             [st.words[w] EXCEPT !.status = ComputeStatusForWord(st, w)]]]

\* set_target_samples(target)
SetTargetSamples(st, target) ==
    IF target <= 0 THEN st ELSE RecomputeAll([st EXCEPT !.target_samples = target])

\* get_aliases(word) of alice.py: the sorted list
WordAliases(st, word) ==
    IF Lower(word) \notin DOMAIN st.words THEN << >>
    ELSE Sorted(st.words[Lower(word)].aliases)

\* The tail of set_aliases and add_alias: the time stamp, then the status
Stamped(st, w) ==
    LET s1 == [st EXCEPT !.words[w].last_calibrated = UtcNow(st), !.clock = @ + 1]
    IN [s1 EXCEPT !.words[w].status = ComputeStatusForWord(s1, w)]

\* set_aliases(word, aliases)
SetAliases(st, word, aliases) ==
    LET w == Lower(word)
        s1 == EnsureWord(st, w)
        aliases_clean == {Lower(Strip(a)) : a \in {x \in SeqToSet(aliases) : Strip(x) # ""}}
    IN IF w \notin DOMAIN s1.words THEN KeyError(s1)
       ELSE Stamped([s1 EXCEPT !.words[w].aliases = aliases_clean], w)

\* add_alias keeping the letter case of the alias
AddAlias_KeepsCase(st, word, alias) ==
    LET w == Lower(word)
        s1 == EnsureWord(st, w)
    IN IF Strip(alias) = "" THEN st
       ELSE IF w \notin DOMAIN s1.words THEN KeyError(s1)
       ELSE [s1 EXCEPT !.words[w].aliases = @ \cup {Strip(alias)}]

\* add_alias(word, alias)
AddAlias(st, word, alias) ==
    LET w == Lower(word)
        s1 == EnsureWord(st, w)
    IN IF Strip(alias) = "" THEN st
       ELSE IF w \notin DOMAIN s1.words THEN KeyError(s1)
       ELSE Stamped([s1 EXCEPT !.words[w].aliases = @ \cup {Lower(Strip(alias))}], w)

\* delete_aliases(word, aliases): aliases.all stands for None and "all",
\* aliases.list is the list otherwise
DeleteAliases(st, word, aliases) ==
    LET w == Lower(word) IN
    IF w \notin DOMAIN st.words THEN st
    ELSE LET s1 == IF aliases.all
                   THEN [st EXCEPT !.words[w].aliases = {}]
                   ELSE [st EXCEPT !.words[w].aliases =
                                       @ \ {Lower(a) : a \in SeqToSet(aliases.list)}]
         IN [s1 EXCEPT !.words[w].status = ComputeStatusForWord(s1, w)]

\* _serialize without the time stamps
Serialize_NoTimestamps(st) ==
    [target_samples |-> st.target_samples,
     words |-> [w \in DOMAIN st.words |->
                   [aliases |-> Sorted(st.words[w].aliases),
                    last_calibrated |-> None,
                    status |-> st.words[w].status]]]

\* _serialize(): what json.dumps writes, the aliases as a sorted list
Serialize(st) ==
    [target_samples |-> st.target_samples,
     words |-> [w \in DOMAIN st.words |->
                   [aliases |-> Sorted(st.words[w].aliases),
                    last_calibrated |-> st.words[w].last_calibrated,
                    status |-> st.words[w].status]]]

\* export_to_file(path)
ExportToFile(st) ==
    [st EXCEPT !.file = Serialize(st), !.has_file = TRUE,
               !.at_export = [target_samples |-> st.target_samples, words |-> st.words]]

\* import_from_file(path, replace) of the exported file
ImportFromFile(st, replace) ==
    LET data == st.file
        s1 == IF data.target_samples > 0
              THEN [st EXCEPT !.target_samples = data.target_samples] ELSE st
        s2 == IF replace
              THEN [s1 EXCEPT !.words = [w \in DOMAIN s1.words |-> NewWord]]
              ELSE s1
        s3 == [s2 EXCEPT !.words =
                  [w \in DOMAIN data.words \cup DOMAIN s2.words |->
                      IF w \in DOMAIN data.words
                      THEN [aliases |-> SeqToSet(data.words[w].aliases),
                            last_calibrated |-> data.words[w].last_calibrated,
                            status |-> data.words[w].status]
                      ELSE s2.words[w]]]
    IN RecomputeAll(s3)

\* No function has been called on its own
NoProbe == [op |-> "none"]

\* ------------------------------------------------- speech playback of the GUI

\* A text is the sequence of the lengths of its sentences, as
\* re.split(r"(?<=[.!?])\s+") of _chunk_text_for_tts leaves them.

\* The help text of _speak_help for the default wake name
HelpSentences == <<17, 61, 36, 37, 54, 80, 79, 66, 79, 58>>

\* "Guided mode enabled. I will talk you through commands."
GuidedSentences == <<20, 33>>

\* An answer of the code-generation tool, three long sentences
ResponseSentences == <<300, 200, 200>>

\* max_chars of the call in _start_tts_from_text
ChunkLimit == 320

RECURSIVE ChunkFold(_, _, _)
ChunkFold(rest, current, chunks) ==
    IF rest = << >> THEN (IF current > 0 THEN Append(chunks, current) ELSE chunks)
    ELSE IF Head(rest) = 0 THEN ChunkFold(Tail(rest), current, chunks)
    ELSE IF current = 0 THEN ChunkFold(Tail(rest), Head(rest), chunks)
    ELSE IF current + 1 + Head(rest) <= ChunkLimit
    THEN ChunkFold(Tail(rest), current + 1 + Head(rest), chunks)
    ELSE ChunkFold(Tail(rest), Head(rest), Append(chunks, current))

\* _chunk_text_for_tts(text, max_chars=320): the lengths of the chunks
ChunkTextForTts(sentences) == ChunkFold(sentences, 0, << >>)

Workers == 1..MaxWorkers

\* CodexVoiceGUI.__init__: the speech attributes, the panes, the mode; no
\* worker thread yet. played counts the playbacks of each chunk of the
\* current chunk list; last is what the last step did.
NewGui ==
    [tts_thread |-> 0,
     tts_chunks |-> << >>,
     tts_index |-> 0,
     tts_paused |-> FALSE,
     tts_should_stop |-> FALSE,
     tts_last_stop |-> FALSE,
     tts_recording_path |-> FALSE,
     guided |-> FALSE,
     save_recordings |-> TRUE,
     voice_mode |-> "idle",
     clear_confirm_window |-> "none",
     prompt |-> "",
     output |-> << >>,
     output_header |-> FALSE,
     runs |-> 0,
     run_button |-> "normal",
     workers |-> [w \in Workers |-> [pc |-> "new", chunk |-> 0]],
     lock |-> 0,
     threads |-> 0,
     commands |-> 0,
     played |-> << >>,
     last |-> [op |-> "construct", notice |-> "", started |-> FALSE, alive |-> FALSE,
               error |-> FALSE, chunks |-> << >>, index |-> 0]]

\* threading.Thread.is_alive() of worker w
IsAlive(g, w) == g.workers[w].pc \notin {"new", "dead"}

\* self.tts_thread is not None and self.tts_thread.is_alive()
ThreadAlive(g) == g.tts_thread # 0 /\ IsAlive(g, g.tts_thread)

\* _append_console(text): the notice of the command
Notice(g, text) == [g EXCEPT !.last.notice = text]

\* threading.Thread(target=self._tts_loop).start()
StartWorker(g) ==
    [g EXCEPT !.threads = @ + 1,
              !.tts_thread = g.threads + 1,
              !.workers[g.threads + 1] = [pc |-> "top", chunk |-> 0],
              !.last.started = TRUE]

\* _start_tts_from_text(text, record_label), the speech engine being loaded
StartTtsFromText(g, sentences, label) ==
    IF sentences = << >> THEN Notice(g, "[VOICE] Nothing to read aloud.")
    ELSE IF ThreadAlive(g)
    THEN Notice(g, IF g.tts_last_stop THEN "[VOICE] Previous speech is still winding down"
                   ELSE "[VOICE] Speech already in progress")
    ELSE Notice(StartWorker([g EXCEPT !.tts_chunks = ChunkTextForTts(sentences),
                                      !.tts_index = 0,
                                      !.tts_should_stop = FALSE,
                                      !.tts_paused = FALSE,
                                      !.tts_recording_path = label /\ g.save_recordings,
                                      !.played = [i \in 1..Len(ChunkTextForTts(sentences)) |-> 0]]),
                "[VOICE] Speaking via Coqui.")

\* _guided_say(text)
GuidedSay(g, sentences) ==
    IF sentences = << >> \/ ~g.guided THEN g
    ELSE IF ThreadAlive(g) THEN g
    ELSE IF g.tts_paused THEN g
    ELSE StartTtsFromText(g, sentences, FALSE)

\* _clean_response_text of the output pane: the header lines are dropped
CleanResponseText(g) == g.output

\* _start_tts_read_response
StartTtsReadResponse(g) ==
    IF g.output = << >> /\ ~g.output_header
    THEN Notice(g, "[VOICE] No response to read aloud.")
    ELSE IF CleanResponseText(g) = << >>
    THEN Notice(g, "[VOICE] Response contained only headers/markup; nothing to read.")
    ELSE StartTtsFromText(g, CleanResponseText(g), g.save_recordings)

\* _pause_tts
PauseTts(g) ==
    IF ~ThreadAlive(g) THEN Notice(g, "[VOICE] No active speech to pause.")
    ELSE IF g.tts_paused THEN Notice(g, "[VOICE] Speech is already paused.")
    ELSE Notice([g EXCEPT !.tts_should_stop = TRUE, !.tts_paused = TRUE],
                "[VOICE] Pausing speech (after current sentence).")

\* as _continue_tts, with the playback taken up at the first chunk again
ContinueTts_FromStart(g) ==
    IF ~g.tts_paused THEN Notice(g, "[VOICE] Speech is not paused.")
    ELSE IF g.tts_chunks = << >>
    THEN Notice([g EXCEPT !.tts_paused = FALSE], "[VOICE] Nothing to continue.")
    ELSE IF ThreadAlive(g)
    THEN Notice(g, "[VOICE] Still finishing previous pause; try again shortly.")
    ELSE Notice(StartWorker([g EXCEPT !.tts_should_stop = FALSE, !.tts_paused = FALSE,
                                      !.tts_index = 0]),
                "[VOICE] Resuming speech via Coqui.")

\* _continue_tts
ContinueTts(g) ==
    IF ~g.tts_paused THEN Notice(g, "[VOICE] Speech is not paused.")
    ELSE IF g.tts_chunks = << >>
    THEN Notice([g EXCEPT !.tts_paused = FALSE], "[VOICE] Nothing to continue.")
    ELSE IF ThreadAlive(g)
    THEN Notice(g, "[VOICE] Still finishing previous pause; try again shortly.")
    ELSE IF g.tts_index >= Len(g.tts_chunks)
    THEN Notice([g EXCEPT !.tts_paused = FALSE], "[VOICE] Already at end of speech.")
    ELSE Notice(StartWorker([g EXCEPT !.tts_should_stop = FALSE, !.tts_paused = FALSE]),
                "[VOICE] Resuming speech via Coqui.")

\* _stop_tts_command
StopTtsCommand(g) ==
    IF ~ThreadAlive(g)
    THEN Notice([g EXCEPT !.tts_chunks = << >>, !.tts_index = 0, !.tts_paused = FALSE,
                          !.tts_should_stop = FALSE, !.played = << >>],
                "[VOICE] No active speech to stop.")
    ELSE Notice([g EXCEPT !.tts_should_stop = TRUE, !.tts_paused = FALSE,
                          !.tts_last_stop = TRUE],
                "[VOICE] Stopping speech.")

\* _handle_wake_command: the 'respond' branch
VoiceRespond(g) ==
    IF g.tts_paused THEN ContinueTts(g)
    ELSE IF ThreadAlive(g)
    THEN Notice(g, "[VOICE] Response already being spoken; say stop, then respond again.")
    ELSE StartTtsReadResponse(g)

\* _handle_wake_command: the 'mode guided' branch
VoiceModeGuided(g) == GuidedSay([g EXCEPT !.guided = TRUE], GuidedSentences)

\* _handle_wake_command: the 'run' branch, and on_run
OnRun(g) ==
    IF g.prompt = "" THEN Notice(g, "No prompt")
    ELSE [g EXCEPT !.run_button = "disabled", !.output = << >>, !.output_header = TRUE,
                   !.runs = @ + 1]

VoiceRun(g) == OnRun(GuidedSay(g, <<20>>))

\* _update_output_and_console(text), called when _run_codex has the output
UpdateOutputAndConsole(g, sentences) ==
    [g EXCEPT !.output = @ \o sentences, !.runs = @ - 1, !.run_button = "normal"]

\* One step of _tts_loop by worker w, from one read or write of a shared
\* attribute to the next; ok is whether the synthesis succeeds.
TtsLoopStep(g, w, ok) ==
    LET pc == g.workers[w].pc
        Goto(h, to) == [h EXCEPT !.workers[w].pc = to]
        Unlock(h) == [h EXCEPT !.lock = 0]
    IN
    IF pc = "top" THEN
        IF g.tts_index < Len(g.tts_chunks) /\ ~g.tts_should_stop
        THEN Goto([g EXCEPT !.workers[w].chunk = g.tts_index + 1], "lock")
        ELSE Goto(g, "finally")
    ELSE IF pc = "lock" THEN
        IF g.tts_should_stop THEN Goto(g, "finally")
        ELSE Goto([g EXCEPT !.lock = w], "synth")
    ELSE IF pc = "synth" THEN
        IF ~ok THEN Goto(Unlock(g), "finally")
        ELSE IF g.tts_should_stop THEN Goto(Unlock(g), "finally")
        ELSE Goto(g, "read")
    ELSE IF pc = "read" THEN
        IF g.tts_should_stop THEN Goto(Unlock(g), "finally")
        ELSE Goto([g EXCEPT !.played[g.workers[w].chunk] = @ + 1], "play")
    ELSE IF pc = "play" THEN Goto(Unlock(g), "advance")
    ELSE IF pc = "advance" THEN Goto([g EXCEPT !.tts_index = @ + 1], "top")
    ELSE IF pc = "finally" THEN
        Goto([g EXCEPT !.tts_recording_path = FALSE,
                       !.tts_paused = IF g.tts_index >= Len(g.tts_chunks) THEN FALSE ELSE @],
             "release")
    ELSE [Goto(g, "dead") EXCEPT !.tts_thread = 0]

\* --------------------------------------------- clear confirmation of the GUI

\* clear_confirm_window is "none" (None), "open" (a Toplevel that exists) or
\* "destroyed" (the attribute still refers to a window that is gone)

\* _do_clear: the three panes emptied, one line written to the console
DoClear(g) == Notice([g EXCEPT !.prompt = "", !.output = << >>], "[VOICE] Cleared all panes.")

\* _ask_clear_confirm
AskClearConfirm(g) ==
    IF g.clear_confirm_window = "open" THEN g
    ELSE GuidedSay([g EXCEPT !.voice_mode = "confirm_clear",
                             !.clear_confirm_window = "open"],
                   <<58, 22>>)

\* _finish_clear(confirmed)
FinishClear(g, confirmed) ==
    LET g1 == IF confirmed THEN GuidedSay(DoClear(g), <<18>>)
              ELSE GuidedSay(Notice(g, "[VOICE] Clear cancelled."), <<16>>)
    IN [g1 EXCEPT !.voice_mode = "idle", !.clear_confirm_window = "none"]

\* The window manager closes the dialog: no WM_DELETE_WINDOW handler is
\* installed, Tk destroys the Toplevel and calls nothing
CloseClearDialog(g) == [g EXCEPT !.clear_confirm_window = "destroyed"]

\* _handle_voice_text for the words heard: the confirm-clear branch, then the
\* wake command 'clear'
GuiVoiceText(g, heard) ==
    IF g.voice_mode = "confirm_clear"
    THEN IF heard \in {"confirm", "yes"} THEN FinishClear(g, TRUE)
         ELSE IF heard \in {"cancel", "no"} THEN FinishClear(g, FALSE)
         ELSE g
    ELSE IF heard = "codex clear" THEN AskClearConfirm(g)
    ELSE g

\* ---------------------------------------------------- the listening loops

\* The listening after construction. The shell has called _init_stt: its flag
\* is set, one audio capture loop and one recognition loop run. The GUI does
\* not listen. A loop is the place its thread is at: "check" before the test
\* of its while, "get" in the wait for audio, "recheck" after it, "dead".
NewMic ==
    [listening |-> TRUE, audio |-> <<"check">>, stt |-> <<"check">>,
     g_listening |-> FALSE, g_streams |-> 0, g_loops |-> << >>,
     requests |-> 0, last |-> "construct"]

\* The loops of the list that have not returned
Running(loops) == {i \in 1..Len(loops) : loops[i] # "dead"}

\* _init_stt of the shell, the recognizer loaded
MicInitStt(m) ==
    IF m.listening THEN m
    ELSE [m EXCEPT !.listening = TRUE,
                   !.audio = Append(@, "check"),
                   !.stt = Append(@, "check")]

\* the 'stop listening' branch of the shell's _handle_wake_command
MicStopListening(m) == [m EXCEPT !.listening = FALSE]

\* start_listening of the GUI, the model loaded and the stream opened
StartListening(m) ==
    IF m.g_listening THEN m
    ELSE [m EXCEPT !.g_streams = @ + 1,
                   !.g_listening = TRUE,
                   !.g_loops = Append(@, "check")]

\* stop_listening of the GUI
StopListening(m) ==
    IF ~m.g_listening THEN m
    ELSE [m EXCEPT !.g_listening = FALSE,
                   !.g_streams = IF @ > 0 THEN @ - 1 ELSE 0]

\* toggle_listening of the GUI
ToggleListening(m) == IF ~m.g_listening THEN StartListening(m) ELSE StopListening(m)

\* One step of a loop whose while tests the flag on: the test, the wait for
\* audio that ends with or without audio, the second test of the GUI's loop
LoopStep(pc, on, got, second) ==
    IF pc = "check" THEN (IF on THEN "get" ELSE "dead")
    ELSE IF pc = "get" THEN (IF got /\ second THEN "recheck" ELSE "check")
    ELSE IF pc = "recheck" THEN (IF on THEN "check" ELSE "dead")
    ELSE pc

\* ------------------------------------------------------------ construction

\* The greatest member of a non-empty set of positions
LastIndex(S) == CHOOSE i \in S : \A j \in S : j <= i

\* A launch switch: the last of its arguments given decides, else the default
Switch(args, on, off, default) ==
    LET hits == {i \in 1..Len(args) : Lower(args[i]) \in (on \cup off)} IN
    IF hits = {} THEN default ELSE Lower(args[LastIndex(hits)]) \in on

\* What follows the colon of a "-voice:" or "-speed:" argument
AfterColon(a) == SubSeq(a, 8, Len(a))

Positive(r) == r.ok /\ r.val > 0

\* The arguments that override the speed, and those that override the voice
SpeedArgs(args) ==
    {i \in 1..Len(args) : /\ StartsWith(Lower(args[i]), "-speed:")
                          /\ ParseFloat(AfterColon(args[i])).ok}

VoiceArgs(args) ==
    {i \in 1..Len(args) : /\ StartsWith(Lower(args[i]), "-voice:")
                          /\ Positive(ParseInt(AfterColon(args[i])))}

\* The speed after _load_settings and the overrides
SpeedOf(args, file, given) ==
    IF given # {} THEN ClampSpeed(ParseFloat(AfterColon(args[LastIndex(given)])).val)
    ELSE IF file = << >> THEN 120 ELSE ClampSpeed(file[1].tts_speed)

\* The voice after _load_settings and the overrides
VoiceOf(args, file, given) ==
    IF given # {} THEN ParseInt(AfterColon(args[LastIndex(given)])).val - 1
    ELSE IF file # << >> /\ file[1].voice_index >= 0 THEN file[1].voice_index ELSE 1

\* A saved setting, the default where there is no settings file
Saved(file, key, default) == IF file = << >> THEN default ELSE file[1][key]

\* The attributes after the defaults, _load_settings and the overrides
Attributes(args, file) ==
    [assistant_name |-> Saved(file, "assistant_name", "Alice"),
     guided_mode |-> Switch(args, {"-guided"}, {"-unguided"},
                            Saved(file, "guided_mode", TRUE)),
     current_model |-> Saved(file, "model", "gpt-5"),
     current_reasoning |-> Saved(file, "reasoning", "medium"),
     debug_enabled |-> Switch(args, {"-logdebug"}, {"-nodebug"},
                              Saved(file, "debug_enabled", TRUE)),
     save_recordings |-> Switch(args, {"-recordresponsespeech"},
                                {"-norecordresponsespeech"},
                                Saved(file, "save_recordings", TRUE)),
     save_prompts |-> Switch(args, {"-saveprompts"}, {"-nosaveprompts"},
                             Saved(file, "save_prompts", TRUE)),
     use_color |-> Switch(args, {"-fancy", "-ui", "-color"}, {"-nofancy"},
                          Saved(file, "use_color", TRUE)),
     tts_speed |-> SpeedOf(args, file, SpeedArgs(args)),
     buffer_mode |-> Saved(file, "buffer_mode", "session"),
     buffer_anchor_index |-> 0,
     buffer_last_action_index |-> 0,
     voice_index |-> VoiceOf(args, file, VoiceArgs(args)),
     terminal_buffer |-> << >>,
     prompt_text |-> "",
     pending_shell_command |-> None,
     pending_shell_explanation |-> None,
     last_codex_prompt |-> None,
     last_codex_response |-> None,
     prompt_capture |-> FALSE,
     confirm_mode |-> None,
     exit_requested |-> FALSE,
     listening |-> FALSE,
     profile |-> [k \in {"wake", "yes", "no", "guided", "unguided"} |-> << >>],
     settings_file |-> file,
     logger_debug |-> FALSE,
     logger_session |-> FALSE,
     tts |-> TRUE,
     colorama |-> TRUE,
     stack |-> << >>,
     fx |-> << >>]

\* The logger flags and the colour switch follow the attributes
Configure(d) ==
    [d EXCEPT !.logger_debug = d.debug_enabled,
              !.logger_session = d.save_prompts,
              !.use_color = d.use_color /\ d.colorama]

\* CodexVoiceShell.__init__(args) with the settings file as _save_settings
\* has left it (file = << >>: none): defaults, the saved settings, then the
\* launch-argument overrides; no voice profile on disk, speech engines
\* available; the two engine start-ups buffer two lines each and start the
\* recognition thread.
ConstructWith(args, file) ==
    InitStt(PrintLine(PrintLine(PrintLine(Configure(Attributes(args, file)),
                                          "[VOICE] Loading Coqui TTS model"),
                                "[VOICE] Coqui speakers"),
                      "[VOICE] Loading Vosk model"))

\* The program started with no settings file on disk
Construct(args) == ConstructWith(args, << >>)

\* The attributes __init__ gives the object
Fields ==
    {"assistant_name", "guided_mode", "current_model", "current_reasoning",
     "debug_enabled", "save_recordings", "save_prompts", "use_color",
     "tts_speed", "buffer_mode", "buffer_anchor_index",
     "buffer_last_action_index", "voice_index", "terminal_buffer",
     "prompt_text", "pending_shell_command", "pending_shell_explanation",
     "last_codex_prompt", "last_codex_response", "prompt_capture",
     "confirm_mode", "exit_requested", "listening", "profile",
     "settings_file", "logger_debug", "logger_session", "tts", "colorama"}

Object(s) == [k \in Fields |-> s[k]]

\* The object as it was before the step
Pre == self

InitObjectsWith(launches, files) ==
    /\ \E args \in launches, file \in files : self = Object(ConstructWith(args, file))
    /\ blocked = [t \in {"main", "voice"} |-> << >>]
    /\ started = FALSE
    /\ main_done = FALSE
    /\ inputs = 0
    /\ step = [by |-> "main", op |-> "construct", input |-> "", frame |-> "",
               pre |-> self, fx |-> << >>, replaced |-> None,
               shown |-> [inline |-> None, mode |-> None],
               asked |-> [inline |-> None, mode |-> None]]
    /\ store = NewStore
    /\ gui = NewGui
    /\ mic = NewMic

InitObjects(launches) == InitObjectsWith(launches, {<< >>})

InitWith(launches) == InitObjects(launches) /\ probe = NoProbe

\* -------------------------------------------------------------- the threads

\* A thread resumes its handler on the object with its own frames
Enter(t) == self @@ [stack |-> blocked[t], fx |-> << >>]

Pop(s) == [s EXCEPT !.stack = Tail(@)]

Has(s, op) == \E i \in 1..Len(s.fx) : s.fx[i][1] = op

\* run(): top of the loop, reached when the body has finished
LoopTop(s) ==
    IF s.exit_requested
    THEN Fx(PrintLine(s, "[SHELL] Exiting voice shell."), "break", "")
    ELSE s

\* as the body of the loop, without the test of the exit request that follows
\* the typed confirmation
RunLoopBody_NoExitCheck(s, line) ==
    LET stripped == Strip(line) IN
    IF Truthy(s.confirm_mode)
       /\ Lower(stripped) \in {"yes", "y", "confirm", "no", "n", "cancel"}
    THEN ApplyConfirmDecision(s, Lower(stripped) \in Affirmative)
    ELSE IF stripped = "" THEN s
    ELSE IF StartsWith(stripped, "v-") THEN HandleTypedVoiceCommand(s, stripped)
    ELSE RunShellCommand(s, stripped)

\* run(): the body of the loop for one line read at the "$ " prompt
RunLoopBody(s, line) ==
    LET stripped == Strip(line) IN
    IF Truthy(s.confirm_mode)
       /\ Lower(stripped) \in {"yes", "y", "confirm", "no", "n", "cancel"}
    THEN ApplyConfirmDecision(s, Lower(stripped) \in Affirmative)
    ELSE IF s.exit_requested
    THEN Fx(PrintLine(s, "[SHELL] Exiting voice shell."), "break", "")
    ELSE IF stripped = ""
    THEN IF s.prompt_capture
         THEN Guided(PrintLine([s EXCEPT !.prompt_capture = FALSE],
                               "[SHELL] Prompt editing finished (Enter)."),
                     "Prompt editing finished.")
         ELSE s
    ELSE IF StartsWith(stripped, "v-") THEN HandleTypedVoiceCommand(s, stripped)
    ELSE IF stripped \in {"exit", "quit"}
    THEN Push(PrintLine(s, "[CONFIRM] Exit voice shell? (y/N)? "), "quit_input", "")
    ELSE IF stripped = "clear"
    THEN ClearBuffer(Fx(s, "os_clear", ""), "[SHELL] Screen and buffer cleared.")
    ELSE RunShellCommand(s, stripped)

\* run() leaves its loop: an uncaught exception ends the process, a break
\* stops the listening (line 1896)
LeaveLoop(t, s) ==
    IF t = "main" /\ Has(s, "break") THEN [s EXCEPT !.listening = FALSE] ELSE s

\* The main thread, its handlers finished, is back at the top of its loop
BackToLoop(t, s) ==
    LeaveLoop(t, IF t = "main" /\ s.stack = << >> /\ ~Has(s, "break") /\ ~Has(s, "exception")
                 THEN LoopTop(s) ELSE s)

\* What a thread does after its step: return through the finished handlers
Settle(t, s) == BackToLoop(t, Unwind(s))

Ended(t, s) == t = "main" /\ (Has(s, "break") \/ Has(s, "exception"))

\* The handler asked for a confirmation while another one was pending and
\* unanswered
Replaces(s) ==
    /\ Truthy(Pre.confirm_mode)
    /\ Truthy(s.confirm_mode)
    /\ s.confirm_mode # Pre.confirm_mode
    /\ ~Has(s, "decision")

\* The reason a pending confirmation has replaced, kept until it is answered
Replaced(s) ==
    IF Replaces(s) THEN Pre.confirm_mode
    ELSE IF Truthy(Pre.confirm_mode) THEN step.replaced
    ELSE None

\* The command the handler has displayed in its question, if it has asked one
Asked(s) ==
    LET asks == {i \in 1..Len(s.fx) : s.fx[i][1] = "ask_exec"} IN
    IF asks = {} THEN None ELSE s.fx[CHOOSE i \in asks : \A j \in asks : j <= i][2]

\* The command displayed by the last question of each kind: the typed v-exec,
\* which waits for its answer in input(), and the spoken 'execute'
Shown(s) ==
    IF Asked(s) = None THEN step.shown
    ELSE IF s.stack # << >> /\ Head(s.stack).f = "exec_input"
    THEN [step.shown EXCEPT !.inline = Asked(s)]
    ELSE [step.shown EXCEPT !.mode = Asked(s)]

Commit(t, s, op, input, frame) ==
    /\ Len(s.stack) <= MaxDepth
    /\ self' = Object(s)
    /\ blocked' = [blocked EXCEPT ![t] = s.stack]
    /\ main_done' = (main_done \/ Ended(t, s))
    /\ step' = [by |-> t, op |-> op, input |-> input, frame |-> frame, pre |-> Pre,
                fx |-> s.fx, replaced |-> Replaced(s), shown |-> Shown(s),
                asked |-> step.shown]
    /\ UNCHANGED <<store, probe, gui, mic>>

AtPrompt == started /\ ~main_done /\ blocked["main"] = << >>

Top(t) == Head(blocked[t])

\* run() up to its first prompt: the banner, the announcement, spoken as well
RunStart ==
    /\ ~started
    /\ started' = TRUE
    /\ UNCHANGED inputs
    /\ Commit("main",
              Settle("main", Speak(PrintLine(PrintBanner(Enter("main")),
                                             "[VOICE] alice-shell listening"),
                                   Lower(self.assistant_name) \o "-shell listening")),
              "start", "", "")

\* The recognizer hands a final result to _handle_vosk_result (_stt_loop)
VoiceUtterance(heard) ==
    /\ ~main_done
    /\ self.listening
    /\ blocked["voice"] = << >>
    /\ inputs < MaxInputs
    /\ inputs' = inputs + 1
    /\ UNCHANGED started
    /\ Commit("voice", Settle("voice", HandleVoskResult(Enter("voice"), heard)),
              "utterance", heard, "")

\* A line typed at the "$ " prompt of run()
TypedLine(line) ==
    /\ AtPrompt
    /\ inputs < MaxInputs
    /\ inputs' = inputs + 1
    /\ UNCHANGED started
    /\ Commit("main", Settle("main", RunLoopBody(Enter("main"), line)), "typed", line, "")

\* End of input at the "$ " prompt
EndOfInput ==
    /\ AtPrompt
    /\ UNCHANGED <<started, inputs>>
    /\ Commit("main", Settle("main", Fx(PrintLine(Enter("main"),
                                                 "[SHELL] EOF received, exiting."),
                                       "break", "")),
              "eof", "", "")

\* A line typed while thread t waits in an input() of its own
InlineAnswer(t, line) ==
    /\ ~main_done
    /\ blocked[t] # << >>
    /\ Top(t).f \in InputFrames
    /\ UNCHANGED <<started, inputs>>
    /\ Commit(t, Settle(t, AfterInput(Pop(Enter(t)), Top(t), line)), "answer", line, Top(t).f)

\* The codex subprocess of thread t ends
CodexReturns(t, res) ==
    /\ ~main_done
    /\ blocked[t] # << >>
    /\ Top(t).f = "codex_wait"
    /\ UNCHANGED <<started, inputs>>
    /\ Commit(t, Settle(t, CodexDone(Pop(Enter(t)), res)), "codex", res.text, "codex_wait")

\* The OS shell subprocess of thread t ends
ShellReturns(t, res) ==
    /\ ~main_done
    /\ blocked[t] # << >>
    /\ Top(t).f = "shell_wait"
    /\ UNCHANGED <<started, inputs>>
    /\ Commit(t, Settle(t, ShellDone(Pop(Enter(t)), res)), "shell", Top(t).arg, "shell_wait")

\* Thread t stores the buffer length it has read into the index
StoreIndex(t) ==
    /\ ~main_done
    /\ blocked[t] # << >>
    /\ Top(t).f = "store_index"
    /\ UNCHANGED <<started, inputs>>
    /\ Commit(t, Settle(t, IF Top(t).arg = "anchor"
                            THEN [Pop(Enter(t)) EXCEPT !.buffer_anchor_index = Top(t).n]
                            ELSE [Pop(Enter(t)) EXCEPT !.buffer_last_action_index = Top(t).n]),
              "store", Top(t).arg, "store_index")

Threads == {"main", "voice"}

\* ------------------------------------------------------------------ inputs

\* Launch argument lists: none, or both save flags switched off
Launches == {<< >>, <<"-norecordresponsespeech", "-nosaveprompts">>}

Utterances == {"alice voice command", "alice execute", "yes", "no", "alice exit"}

TypedLines == {"v-exec", "yes", "no"}

Answers == {"y", "n"}

CodexLs == [kind |-> "ok", text |-> "CMD: ls\nEXPL: list files", code |-> "0"]

CodexExit == [kind |-> "ok", text |-> "CMD: Alice exit\nEXPL: leave", code |-> "0"]

CodexClear == [kind |-> "ok", text |-> "CMD: v-clear\nEXPL: clear", code |-> "0"]

CodexRecord == [kind |-> "ok", text |-> "CMD: v-recordspeech-on\nEXPL: record", code |-> "0"]

CodexEmpty == [kind |-> "ok", text |-> "", code |-> "0"]

CodexResults == {CodexLs, CodexExit}

ShellResults == {[err |-> FALSE, lines |-> <<"out">>]}

NextWith(U, T, A, C, R) ==
    \/ RunStart
    \/ \E heard \in U : VoiceUtterance(heard)
    \/ \E line \in T : TypedLine(line)
    \/ EndOfInput
    \/ \E t \in Threads, line \in A : InlineAnswer(t, line)
    \/ \E t \in Threads, res \in C : CodexReturns(t, res)
    \/ \E t \in Threads, res \in R : ShellReturns(t, res)
    \/ \E t \in Threads : StoreIndex(t)

\* Proposing, confirming and declining a command
Init == InitWith({<< >>})

Next == NextWith(Utterances, TypedLines, Answers, CodexResults, ShellResults)

Spec == Init /\ [][Next]_vars

\* Clearing the buffer and moving its indices
BufferUtterances == {"alice voice command", "alice execute", "yes", "alice clear",
                     "alice buffer clear"}

BufferLines == {"clear", "v-clear", "v-buffer clear", "v-history", "v-exec", "ls"}

NextBuffer == NextWith(BufferUtterances, BufferLines, {"y"}, {CodexClear}, ShellResults)

SpecBuffer == Init /\ [][NextBuffer]_vars

\* Enabling the two save flags, launched with both switched off
FlagUtterances == {"alice save recordings", "alice log", "yes", "no",
                   "alice voice command", "alice execute"}

FlagLines == {"v-recordspeech-on", "v-saveprompts-on", "v-recordings", "v-exec", "ls"}

NextFlags == NextWith(FlagUtterances, FlagLines, {"y"}, {CodexRecord}, ShellResults)

SpecFlags == InitWith({<<"-norecordresponsespeech", "-nosaveprompts">>}) /\ [][NextFlags]_vars

\* Dictating a prompt, requesting a command, running the prompt
PendingUtterances == {"alice prompt", "list files", "alice voice command", "alice run"}

NextPending == NextWith(PendingUtterances, {"v-exec"}, {"y"}, {CodexLs, CodexEmpty}, ShellResults)

SpecPending == Init /\ [][NextPending]_vars

\* Speed commands, a speed given at the launch, and a settings file whose
\* speed was edited by hand
SpeedLaunches == {<< >>, <<"-speed:3">>, <<"-speed:0.1", "-SPEED:1.9", "-speed:fast">>}

\* The file _save_settings writes for the defaults, with that speed
SettingsWith(speed) ==
    <<[assistant_name |-> "Alice", guided_mode |-> TRUE, model |-> "gpt-5",
       reasoning |-> "medium", debug_enabled |-> TRUE, save_recordings |-> TRUE,
       save_prompts |-> TRUE, use_color |-> TRUE, tts_speed |-> speed,
       buffer_mode |-> "session", voice_index |-> 1]>>

SpeedFiles == {<< >>, SettingsWith(300), SettingsWith(10)}

SpeedUtterances ==
    {"alice speed increase", "alice speed decrease", "alice speed 1.5",
     "alice voice command"}

SpeedLines == {"v-speed 9", "v-speed 0.2", "v-exec"}

NextSpeed == NextWith(SpeedUtterances, SpeedLines, {"y"}, {CodexLs}, ShellResults)

InitSpeed == InitObjectsWith(SpeedLaunches, SpeedFiles) /\ probe = NoProbe

SpecSpeed == InitSpeed /\ [][NextSpeed]_vars

\* Guided mode switched off at the launch
UnguidedUtterances ==
    {"alice exit", "alice mode unguided", "alice respond", "alice voice command", "yes"}

NextUnguided == NextWith(UnguidedUtterances, {"v-exec"}, {"y"}, {CodexLs}, ShellResults)

SpecUnguided == InitWith({<<"-unguided">>}) /\ [][NextUnguided]_vars

\* Confirmations asked by voice, by a typed command and by a proposed command
\* while another one is pending; prompt logging is off at the launch
ConfirmUtterances == {"alice save", "alice log", "yes", "no", "alice voice command"}

ConfirmLines == {"v-save", "v-exec", "yes"}

NextConfirm == NextWith(ConfirmUtterances, ConfirmLines, {"y", "n"}, {CodexExit}, ShellResults)

SpecConfirm == InitWith({<<"-nosaveprompts">>}) /\ [][NextConfirm]_vars

\* Dictation into the prompt, and a confirmation asked for meanwhile
CaptureUtterances ==
    {"alice prompt", "done", "don't stop", "alice exit", "no", "alice voice command"}

NextCapture == NextWith(CaptureUtterances, {"v-exec"}, {"y"}, {CodexLs}, ShellResults)

SpecCapture == Init /\ [][NextCapture]_vars

\* Wake commands heard during the prompt capture
DispatchUtterances ==
    {"alice prompt", "hello world", "alice settings", "alice run", "alice rename bob",
     "alice test voice", "alice voice command"}

NextDispatch == NextWith(DispatchUtterances, {"v-exec"}, {"y"}, {CodexLs}, ShellResults)

SpecDispatch == Init /\ [][NextDispatch]_vars

\* Renaming the assistant and calling it by its new name
RenameUtterances ==
    {"alice rename bob", "bob settings", "alice rename big bob", "big bob settings",
     "max settings", "alice voice command"}

RenameLines == {"v-rename max", "v-exec"}

NextRename == NextWith(RenameUtterances, RenameLines, {"y"}, {CodexLs}, ShellResults)

SpecRename == Init /\ [][NextRename]_vars

\* The code-generation tool is not installed, cannot be run, or fails
CodexMissing == [kind |-> "notfound", text |-> "", code |-> ""]

CodexRaises == [kind |-> "exception", text |-> "Permission denied", code |-> ""]

CodexFails == [kind |-> "exit", text |-> "not logged in", code |-> "1"]

\* Requests whose call of the tool fails or returns nothing
NextFailure ==
    NextWith({"alice voice command", "alice shell command", "alice execute", "yes"},
             {"v-exec"}, {"y"},
             {CodexLs, CodexMissing, CodexRaises, CodexFails, CodexEmpty}, ShellResults)

SpecFailure == Init /\ [][NextFailure]_vars

\* ------------------------------------------------------ steps of the GUI

\* What every step of the GUI starts from
Fresh(op) ==
    [gui EXCEPT !.last = [op |-> op, notice |-> "", started |-> FALSE,
                          alive |-> ThreadAlive(gui), error |-> FALSE,
                          chunks |-> gui.tts_chunks, index |-> gui.tts_index]]

gui_rest == <<self, blocked, started, main_done, inputs, step, store, probe, mic>>

\* A command handled on the Tk thread: said, or a button
GuiCommand(g) ==
    /\ gui.commands < MaxCommands
    /\ g.threads <= MaxWorkers
    /\ gui' = [g EXCEPT !.commands = @ + 1]
    /\ UNCHANGED gui_rest

SayRespond == GuiCommand(VoiceRespond(Fresh("respond")))

PressRead == GuiCommand(StartTtsReadResponse(Fresh("read")))

SayHelp == GuiCommand(StartTtsFromText(Fresh("help"), HelpSentences, FALSE))

SayModeGuided == GuiCommand(VoiceModeGuided(Fresh("guided")))

SayPause == GuiCommand(PauseTts(Fresh("pause")))

SayContinue == GuiCommand(ContinueTts(Fresh("continue")))

SayStop == GuiCommand(StopTtsCommand(Fresh("stop")))

SayRun == GuiCommand(VoiceRun(Fresh("run")))

\* The command of that name reaches its test of the worker thread
ReachesAliveTest(op) ==
    IF op = "continue" THEN gui.tts_paused /\ gui.tts_chunks # << >>
    ELSE IF op = "respond" THEN gui.tts_paused => gui.tts_chunks # << >>
    ELSE IF op = "read" THEN gui.output # << >>
    ELSE IF op = "run" THEN gui.guided
    ELSE TRUE

\* The test reads self.tts_thread twice; the worker's last statement sets it
\* to None in between, and is_alive() of None raises AttributeError, which
\* ends the command
AliveTestRaces(op) ==
    /\ gui.commands < MaxCommands
    /\ gui.tts_thread # 0
    /\ gui.workers[gui.tts_thread].pc = "release"
    /\ ReachesAliveTest(op)
    /\ gui' = [TtsLoopStep(Fresh(op), gui.tts_thread, TRUE)
                  EXCEPT !.commands = @ + 1,
                         !.guided = IF op = "guided" THEN TRUE ELSE @,
                         !.last.error = TRUE]
    /\ UNCHANGED gui_rest

GuiCommands == {"respond", "read", "help", "guided", "pause", "continue", "stop", "run"}

\* The user types a prompt into the prompt pane
TypePrompt ==
    /\ gui.prompt = ""
    /\ gui' = [Fresh("type") EXCEPT !.prompt = "prompt"]
    /\ UNCHANGED gui_rest

\* A thread of _run_codex has the output of the tool
RunCodexDone ==
    /\ gui.runs > 0
    /\ gui' = UpdateOutputAndConsole(Fresh("output"), ResponseSentences)
    /\ UNCHANGED gui_rest

\* A worker thread takes a step; the lock lets one worker at a time past it
WorkerStep(w) ==
    /\ IsAlive(gui, w)
    /\ gui.workers[w].pc = "lock" => gui.lock = 0
    /\ \E ok \in BOOLEAN :
          /\ (gui.workers[w].pc # "synth") => ok
          /\ gui' = TtsLoopStep(Fresh("worker"), w, ok)
    /\ UNCHANGED gui_rest

NextGui ==
    \/ SayRespond
    \/ PressRead
    \/ SayHelp
    \/ SayModeGuided
    \/ SayPause
    \/ SayContinue
    \/ SayStop
    \/ SayRun
    \/ \E op \in GuiCommands : AliveTestRaces(op)
    \/ TypePrompt
    \/ RunCodexDone
    \/ \E w \in Workers : WorkerStep(w)

SpecGui == Init /\ [][NextGui]_vars

\* -------------------------------------- steps of the clear confirmation

GuiHeard == {"codex clear", "yes", "cancel", "hello"}

\* The GUI hears the words
GuiHears(heard) == GuiCommand(GuiVoiceText(Fresh("heard " \o heard), heard))

\* A button of the dialog is clicked
ClickClear(confirmed) ==
    /\ gui.clear_confirm_window = "open"
    /\ GuiCommand(FinishClear(Fresh(IF confirmed THEN "click confirm" ELSE "click cancel"),
                              confirmed))

\* The dialog is closed through the window manager
CloseDialog ==
    /\ gui.clear_confirm_window = "open"
    /\ GuiCommand(CloseClearDialog(Fresh("close")))

NextClear ==
    \/ \E heard \in GuiHeard : GuiHears(heard)
    \/ \E confirmed \in BOOLEAN : ClickClear(confirmed)
    \/ CloseDialog
    \/ SayModeGuided
    \/ TypePrompt
    \/ SayRun
    \/ RunCodexDone
    \/ \E w \in Workers : WorkerStep(w)

SpecClear == Init /\ [][NextClear]_vars

\* ------------------------------------------------ steps of the listening

mic_rest == <<self, blocked, started, main_done, inputs, step, store, probe, gui>>

\* A request to start or stop the listening
MicRequest(m, what) ==
    /\ mic.requests < MaxRequests
    /\ Len(m.stt) <= MaxLoops
    /\ Len(m.g_loops) <= MaxLoops
    /\ mic' = [m EXCEPT !.requests = @ + 1, !.last = what]
    /\ UNCHANGED mic_rest

\* "v-listen" typed at the prompt of the shell (main thread)
TypedListen == MicRequest(MicInitStt(mic), "v-listen")

\* A recognition loop of the shell has its audio and hears "stop listening"
\* or "listen": the handler runs on the loop's thread, the loop goes back to
\* its test
SttHears(i, heard) ==
    /\ i \in 1..Len(mic.stt)
    /\ mic.stt[i] = "get"
    /\ MicRequest([(IF heard = "listen" THEN MicInitStt(mic) ELSE MicStopListening(mic))
                      EXCEPT !.stt[i] = "check"],
                  heard)

\* A recognition loop of the shell: the test of its while, the wait for audio
SttLoopStep(i, got) ==
    /\ i \in 1..Len(mic.stt)
    /\ mic.stt[i] # "dead"
    /\ mic' = [mic EXCEPT !.stt[i] = LoopStep(@, mic.listening, got, FALSE), !.last = "stt"]
    /\ mic'.stt # mic.stt
    /\ UNCHANGED mic_rest

\* An audio capture loop of the shell finds the flag cleared after its sleep
AudioLoopStep(i) ==
    /\ i \in 1..Len(mic.audio)
    /\ mic.audio[i] = "check"
    /\ ~mic.listening
    /\ mic' = [mic EXCEPT !.audio[i] = "dead", !.last = "audio"]
    /\ UNCHANGED mic_rest

\* The listening button of the GUI
ClickListening == MicRequest(ToggleListening(mic), "toggle")

\* "stop listening" heard by the GUI, handled on the Tk thread
SayStopListening ==
    /\ Running(mic.g_loops) # {}
    /\ MicRequest(StopListening(mic), "stop")

\* A loop of the GUI (_voice_loop)
VoiceLoopStep(i, got) ==
    /\ i \in 1..Len(mic.g_loops)
    /\ mic.g_loops[i] # "dead"
    /\ mic' = [mic EXCEPT !.g_loops[i] = LoopStep(@, mic.g_listening, got, TRUE),
                          !.last = "loop"]
    /\ UNCHANGED mic_rest

NextListen ==
    \/ TypedListen
    \/ \E i \in 1..MaxLoops, heard \in {"listen", "stop listening"} : SttHears(i, heard)
    \/ \E i \in 1..MaxLoops, got \in BOOLEAN : SttLoopStep(i, got)
    \/ \E i \in 1..MaxLoops : AudioLoopStep(i)
    \/ ClickListening
    \/ SayStopListening
    \/ \E i \in 1..MaxLoops, got \in BOOLEAN : VoiceLoopStep(i, got)

SpecListen == Init /\ [][NextListen]_vars

\* --------------------------------------------- calls on the word store

\* A call on the word store: the store after it, and what the call was
StoreCommit(st, op, word, arg) ==
    /\ store.calls < MaxCalls
    /\ store' = [st EXCEPT !.calls = @ + 1]
    /\ probe' = [op |-> op, word |-> word, arg |-> arg, pre |-> store]
    /\ UNCHANGED <<shell_vars, gui, mic>>

\* The store as a call finds it
Called == [store EXCEPT !.raised = None]

CallSetAliases(word, aliases) ==
    StoreCommit(SetAliases(Called, word, aliases), "set_aliases", word, aliases)

CallAddAlias(word, alias) ==
    StoreCommit(AddAlias(Called, word, alias), "add_alias", word, alias)

CallDeleteAliases(word, aliases) ==
    StoreCommit(DeleteAliases(Called, word, aliases), "delete_aliases", word, aliases)

CallSetTargetSamples(target) ==
    StoreCommit(SetTargetSamples(Called, target), "set_target_samples", "", target)

CallGetStatus(word) ==
    StoreCommit(GetStatus(Called, word), "get_status", word, "")

CallExport == StoreCommit(ExportToFile(Called), "export", "", "")

CallImport(replace) ==
    /\ store.has_file
    /\ StoreCommit(ImportFromFile(Called, replace), "import", "", replace)

\* The shell's VoiceProfile.add_aliases(key, [word]), as the renaming calls it
CallShellAddAliases(key, word) ==
    /\ store.calls < MaxCalls
    /\ self' = [self EXCEPT !.profile = AddAliases(self, key, <<word>>).profile]
    /\ store' = [Called EXCEPT !.calls = @ + 1]
    /\ probe' = [op |-> "add_aliases", word |-> key, arg |-> word, pre |-> store]
    /\ UNCHANGED <<blocked, started, main_done, inputs, step, gui, mic>>

\* Words: one of the vocabulary in another letter case, one the store has
\* not, and that one between blanks
StoreWords == {"Guided", "zulu", " zulu "}

AliasLists == {<<"guy did", "guidance">>, <<" Guy Did ", "GUIDANCE", "guy did", "x">>,
               <<"x", " ">>}

Phrases == {"guy did", " Guy Did ", "x", " "}

ShellKeys == {"wake", "Wake"}

Selections == {[all |-> TRUE, list |-> << >>], [all |-> FALSE, list |-> <<"Guy Did">>]}

Targets == {0, 1, 2}

NextStore ==
    \/ \E w \in StoreWords, A \in AliasLists : CallSetAliases(w, A)
    \/ \E w \in StoreWords, p \in Phrases : CallAddAlias(w, p)
    \/ \E w \in StoreWords, sel \in Selections : CallDeleteAliases(w, sel)
    \/ \E t \in Targets : CallSetTargetSamples(t)
    \/ \E w \in {Lower(x) : x \in StoreWords} \cap DOMAIN store.words : CallGetStatus(w)
    \/ CallExport
    \/ \E replace \in BOOLEAN : CallImport(replace)
    \/ \E k \in ShellKeys, p \in Phrases : CallShellAddAliases(k, p)

SpecStore == Init /\ [][NextStore]_vars

\* A calibration file written by hand or by another program: the aliases of
\* one word in capitals and between blanks
OtherFiles ==
    {[target_samples |-> 2,
      words |-> [w \in {"zulu"} |->
                    [aliases |-> <<" Guy Did ", "guy did">>,
                     last_calibrated |-> None,
                     status |-> "Uncalibrated"]]]}

\* import_from_file(path, replace) of a file the program has not written
CallImportOther(file, replace) ==
    StoreCommit([ImportFromFile([Called EXCEPT !.file = file], replace)
                    EXCEPT !.file = store.file],
                "import_other", "", replace)

NextImport ==
    \/ NextStore
    \/ \E file \in OtherFiles, replace \in BOOLEAN : CallImportOther(file, replace)

SpecImport == Init /\ [][NextImport]_vars

\* ------------------------------------------- functions called on their own

Twice(s) == s \o s

\* s repeated n times
RECURSIVE Rep(_, _)
Rep(s, n) ==
    IF n = 0 THEN ""
    ELSE IF n % 2 = 0 THEN Twice(Rep(s, n \div 2))
    ELSE s \o Rep(s, n - 1)

\* Console buffers: one line per entry; every tenth entry the two lines of
\* "Prompt:\n{prompt}"; the last entry an output of the tool of 401 lines
BufferKinds == {"plain", "runs", "long"}

BufferSizes == {0, 10, 400, 401, 450}

Offsets == {0, 4, 7, 10, 400, 450}

Modes == {"session", "anchor", "last"}

BufferOf(kind, n) ==
    [i \in 1..n |->
        IF kind = "runs" /\ i % 10 = 5 THEN "Prompt:\nrequest " \o ToString(i)
        ELSE IF kind = "long" /\ i = n THEN Rep("o\n", HistoryLimit) \o "o"
        ELSE "l" \o ToString(i)]

HistoryInputs ==
    {p \in [op : {"_get_history_for_shell"}, done : {FALSE}, kind : BufferKinds,
            n : BufferSizes, mode : Modes, anchor : Offsets, last : Offsets,
            result : {<< >>}, lines : {0}, preview : {0}] :
        p.anchor <= p.n /\ p.last <= p.n}

\* The object with the buffer, the policy and the two indices of an input
HistoryState(p) ==
    [self EXCEPT !.terminal_buffer = BufferOf(p.kind, p.n), !.buffer_mode = p.mode,
                 !.buffer_anchor_index = p.anchor,
                 !.buffer_last_action_index = p.last] @@ [stack |-> << >>, fx |-> << >>]

\* _get_history_for_shell and _print_history_preview on that object
ApplyGetHistory ==
    /\ probe.op = "_get_history_for_shell"
    /\ ~probe.done
    /\ probe' = [probe EXCEPT !.done = TRUE,
                              !.result = GetHistoryForShell(HistoryState(probe)),
                              !.lines = HistoryLineCount(GetHistoryForShell(HistoryState(probe))),
                              !.preview = PrintHistoryPreview(HistoryState(probe)).fx[1][3]]
    /\ UNCHANGED <<shell_vars, store, gui, mic>>

ResponseLines ==
    {"random line", "CMD: ls -la", "EXPL: list files", "cmd: pwd", "", "foo", " bar ", "Expl:"}

Responses ==
    {Join(ls, "\n") : ls \in UNION {[1..k -> ResponseLines] : k \in 0..MaxResponseLines}}

ExtractInputs ==
    [op : {"_extract_cmd_expl_from_response"}, done : {FALSE},
     response : Responses \cup {None}, result : {<<None, None>>}]

\* _extract_cmd_expl_from_response on an object with that last response
ApplyExtract ==
    /\ probe.op = "_extract_cmd_expl_from_response"
    /\ ~probe.done
    /\ probe' = [probe EXCEPT !.done = TRUE,
                              !.result = ExtractCmdExpl([last_codex_response |-> probe.response])]
    /\ UNCHANGED <<shell_vars, store, gui, mic>>

FuzzyWords == {"guided", "xyz123", "Guided!", "", " ", "!", "guidance", "yes"}

CandidateLists ==
    {<< >>, <<"guided">>, <<"guided", "unguided">>, <<"", "Yes ">>,
     <<"yep", "yeah", "guide">>, <<"!">>}

\* The thresholds the two programs call their matchers with, in hundredths
Thresholds == {FuzzyThreshold, 80, 90}

FuzzyInputs ==
    [op : {"_fuzzy_in", "_fuzzy"}, done : {FALSE}, word : FuzzyWords,
     candidates : CandidateLists, pct : Thresholds, result : {FALSE}]

\* The shell's _fuzzy_in
ApplyFuzzyIn ==
    /\ probe.op = "_fuzzy_in"
    /\ ~probe.done
    /\ probe' = [probe EXCEPT !.done = TRUE,
                              !.result = FuzzyIn(probe.word, probe.candidates, probe.pct)]
    /\ UNCHANGED <<shell_vars, store, gui, mic>>

\* The GUI's _fuzzy
ApplyFuzzy ==
    /\ probe.op = "_fuzzy"
    /\ ~probe.done
    /\ probe' = [probe EXCEPT !.done = TRUE,
                              !.result = Fuzzy(probe.word, probe.candidates, probe.pct)]
    /\ UNCHANGED <<shell_vars, store, gui, mic>>

InitPure ==
    /\ InitObjects({<< >>})
    /\ probe \in HistoryInputs \cup ExtractInputs \cup FuzzyInputs

NextPure == ApplyGetHistory \/ ApplyExtract \/ ApplyFuzzyIn \/ ApplyFuzzy

SpecPure == InitPure /\ [][NextPure]_vars

\* ------------------------------------------------------------ what was heard

HeadOf(text) == LET t == Tokenize(Strip(text)) IN IF t = << >> THEN "" ELSE t[1]

HeardYes(text) == FuzzyIn(HeadOf(text), GetYesVariants(self), FuzzyThreshold)

HeardNo(text) == FuzzyIn(HeadOf(text), GetNoVariants(self), FuzzyThreshold)

HeardWake(text) == FuzzyIn(HeadOf(text), GetWakeVariants(self), FuzzyThreshold)

TypedAs(line) == Lower(Strip(line))

Did(op) == \E i \in 1..Len(step.fx) : step.fx[i][1] = op

DidWith(op, arg) == \E i \in 1..Len(step.fx) : step.fx[i][1] = op /\ step.fx[i][2] = arg

\* The step was an accepted confirmation of the pending command
AcceptedExec ==
    \/ /\ step.op = "utterance" /\ step.pre.confirm_mode = "exec" /\ HeardYes(step.input)
    \/ /\ step.op = "typed" /\ step.pre.confirm_mode = "exec"
       /\ TypedAs(step.input) \in Affirmative
    \/ /\ step.op = "answer" /\ step.frame = "exec_input"
       /\ TypedAs(step.input) \in Affirmative

\* ------------------------------------------------------------------ claims

\* C1: a step runs the pending command (as a v- command, a wake command or an
\* OS shell command) only when it is an accepted confirmation: a yes-class
\* utterance or a typed yes/y/confirm while the reason is 'exec', or a
\* y/yes/confirm answer to the inline prompt of v-exec; what it runs is the
\* command that was pending.
C1_ExecOnlyWhenAccepted ==
    Did("exec") => /\ AcceptedExec
                   /\ Truthy(step.pre.pending_shell_command)
                   /\ \A i \in 1..Len(step.fx) :
                          step.fx[i][1] = "exec" => step.fx[i][2] = Strip(step.pre.pending_shell_command)

\* the pending command has been run on a spoken yes
C1_Witness == Did("exec") /\ step.op = "utterance" /\ DidWith("shell", "ls")

\* The step empties the buffer in one of the three ways the shell has
ClearStep ==
    \/ step.op = "typed" /\ Strip(step.input) = "clear"
    \/ step.op = "typed" /\ DidWith("typed", "clear")
    \/ AcceptedExec /\ Did("exec") /\ DidWith("typed", "clear")

TypedKey(keys) ==
    \E i \in 1..Len(step.fx) : step.fx[i][1] = "typed" /\ Split(step.fx[i][2])[1] \in keys

\* The step accepted a confirmation of the given reason, by voice or typed
AcceptedReason(reason) ==
    /\ step.pre.confirm_mode = reason
    /\ DidWith("decision", "accepted")
    /\ \/ step.op = "utterance" /\ HeardYes(step.input)
       \/ step.op = "typed" /\ TypedAs(step.input) \in Affirmative

\* The step ran a typed v- command with one of the keys, typed at the prompt or
\* as the accepted pending command
RanTyped(keys) == (step.op = "typed" \/ AcceptedExec) /\ TypedKey(keys)

\* C3: save_recordings goes from disabled to enabled only in a step that
\* accepts a 'save_recordings' confirmation or runs the typed command
\* v-recordspeech-on or v-recordings; save_prompts only in a step that accepts
\* a 'save_prompts' confirmation or runs v-saveprompts-on or v-logprompts.
C3_EnabledByConfirmationOrTypedSwitch ==
    /\ (~step.pre.save_recordings /\ self.save_recordings)
           => (AcceptedReason("save_recordings") \/ RanTyped({"recordspeech-on", "recordings"}))
    /\ (~step.pre.save_prompts /\ self.save_prompts)
           => (AcceptedReason("save_prompts") \/ RanTyped({"saveprompts-on", "logprompts"}))

\* a spoken yes has enabled the saving of recordings
C3_Witness ==
    ~step.pre.save_recordings /\ self.save_recordings /\ step.op = "utterance"
    /\ step.pre.confirm_mode = "save_recordings"

\* C3 as stated: either flag is enabled only by an accepted confirmation of
\* its own reason
C3_EnabledOnlyWhenConfirmed ==
    /\ (~step.pre.save_recordings /\ self.save_recordings) => AcceptedReason("save_recordings")
    /\ (~step.pre.save_prompts /\ self.save_prompts) => AcceptedReason("save_prompts")

\* No handler of either thread is under way
Quiet == blocked["main"] = << >> /\ blocked["voice"] = << >>

\* C4 as stated: whenever no handler is under way, the pending command and
\* the pending explanation are both null or both non-null.
C4_PendingPairTogether ==
    Quiet => ((self.pending_shell_command = None) <=> (self.pending_shell_explanation = None))

\* The step handled an utterance while a confirmation was pending
HeardWhileConfirming == step.op = "utterance" /\ Truthy(step.pre.confirm_mode)

\* C5: while a reason is pending, an utterance whose head is neither a yes
\* nor a no alias leaves every field of the object as it was (the reason, the
\* pending pair, the prompt and its capture flag, the settings, the buffer and
\* its indices), starts no handler, and does nothing but speak the re-prompt,
\* which it does when guided mode is on.
C5_OtherWordsChangeNothing ==
    (/\ HeardWhileConfirming
     /\ HeadOf(step.input) # ""
     /\ Lower(Strip(step.input)) \notin {"huh", "uh", "um"}
     /\ ~HeardYes(step.input) /\ ~HeardNo(step.input))
    => /\ self = step.pre
       /\ blocked["voice"] = << >>
       /\ \A i \in 1..Len(step.fx) : step.fx[i][1] \in {"speak", "record"}
       /\ step.pre.guided_mode => DidWith("speak", "Please say yes or no.")

\* a wake command was heard while the reason 'exec' was pending
C5_Witness ==
    /\ HeardWhileConfirming /\ step.pre.confirm_mode = "exec"
    /\ HeardWake(step.input) /\ ~HeardYes(step.input) /\ ~HeardNo(step.input)
    /\ self.confirm_mode = "exec"

\* The step declined a pending confirmation, by voice or typed
Declined ==
    /\ Truthy(step.pre.confirm_mode)
    /\ \/ step.op = "utterance" /\ ~HeardYes(step.input) /\ HeardNo(step.input)
       \/ step.op = "typed" /\ TypedAs(step.input) \in {"no", "n", "cancel"}

\* C6: declining a pending confirmation sets the reason to null and keeps the
\* pending command and explanation, the prompt, every setting, the exit flag
\* and both indices; the console lines that were there are all still there.
C6_DeclineOnlyDropsReason ==
    Declined =>
        /\ self.confirm_mode = None
        /\ \A k \in Fields \ {"confirm_mode", "terminal_buffer", "listening"} :
               self[k] = step.pre[k]
        /\ Len(self.terminal_buffer) >= Len(step.pre.terminal_buffer)
        /\ SubSeq(self.terminal_buffer, 1, Len(step.pre.terminal_buffer))
               = step.pre.terminal_buffer
        /\ ~Did("exec")

\* a proposed command has been declined at the keyboard and is still pending
C6_Witness ==
    /\ Declined /\ step.op = "typed" /\ step.pre.confirm_mode = "exec"
    /\ Truthy(self.pending_shell_command)

\* The step handled a yes or a no heard while a confirmation was pending
HeardDecision == HeardWhileConfirming /\ (HeardYes(step.input) \/ HeardNo(step.input))

\* The step ran, as the accepted pending command, a wake command that asks for
\* a confirmation of its own
RanAskingCommand ==
    /\ HeardYes(step.input) /\ step.pre.confirm_mode = "exec" /\ Did("exec")
    /\ \E i \in 1..Len(step.fx) :
           /\ step.fx[i][1] = "wake"
           /\ Split(step.fx[i][2])[1] \in {"exit", "execute", "exec", "save", "log"}

\* C7: after a yes or a no heard while a confirmation was pending, no reason
\* is pending, unless the yes accepted a pending command that is itself one of
\* the wake commands exit, execute, save, save recordings or log: then the
\* reason that command asks for is pending.
C7_IdleUnlessCommandAsks ==
    HeardDecision =>
        \/ self.confirm_mode = None
        \/ /\ RanAskingCommand
           /\ self.confirm_mode \in {"exit", "exec", "save_settings", "save_recordings",
                                     "save_prompts"}

\* a spoken yes has run the pending 'Alice exit', which asks before it exits
C7_Witness == HeardDecision /\ RanAskingCommand /\ self.confirm_mode = "exit"

\* C7 as stated: no reason is pending once a heard yes or no has been handled
C7_IdleAfterDecision ==
    (HeardDecision /\ blocked["voice"] = << >>) => self.confirm_mode = None

\* C8 as stated: heard with no confirmation pending, 'Alice clear' makes
\* 'clear' the pending reason.
C8_AliceClearAsks ==
    (/\ step.op = "utterance" /\ Tokenize(step.input) = <<"alice", "clear">>
     /\ step.pre.confirm_mode = None /\ Lower(step.pre.assistant_name) = "alice")
    => self.confirm_mode = "clear"

\* What v-history would show now: the number of lines of its preview
PreviewNow == PrintHistoryPreview(self @@ [stack |-> << >>, fx |-> << >>]).fx[1][3]

\* C9 as stated: when the typed 'v-buffer clear' has ended, the mode is
\* 'anchor' and a v-history typed next shows zero lines.
C9_PreviewEmptyAfterAnchor ==
    (step.by = "main" /\ DidWith("anchor_set", "typed"))
    => (self.buffer_mode = "anchor" /\ PreviewNow = 0)

\* C10 as stated: in every state both indices are at most the length of the
\* console buffer.
C10_IndicesWithinBuffer ==
    /\ self.buffer_anchor_index <= Len(self.terminal_buffer)
    /\ self.buffer_last_action_index <= Len(self.terminal_buffer)

\* C11 as stated: no step lowers the anchor index or the last-action index.
C11_IndicesNeverDecrease ==
    /\ self.buffer_anchor_index >= step.pre.buffer_anchor_index
    /\ self.buffer_last_action_index >= step.pre.buffer_last_action_index

\* The status the spec gives a word with n aliases under a target
StatusFor(n, target) ==
    IF n = 0 THEN "Uncalibrated" ELSE IF n < target THEN "Partial" ELSE "Calibrated"

\* C16 as stated: after any calls, the status get_status reports for a word
\* is the one its alias count and the target give.
C16_StatusFromCountAndTarget ==
    \A w \in DOMAIN store.words :
        ComputeStatusForWord(store, w)
            = StatusFor(Cardinality(store.words[w].aliases), store.target_samples)

\* C17: set_aliases(w, A) followed by get_aliases(w) returns, for every word w
\* and every list A of non-empty strings, exactly the trimmed, lower-cased
\* elements of A without duplicates, whatever the order of A and whatever w
\* had; an element counts as non-empty when it is so after trimming
C17_SetThenGetIsNormalizedSet ==
    (probe.op = "set_aliases" /\ \A a \in SeqToSet(probe.arg) : Strip(a) # "") =>
        LET got == WordAliases(store, probe.word)
            want == {Lower(Strip(a)) : a \in SeqToSet(probe.arg)}
        IN /\ store.raised = None
           /\ SeqToSet(got) = want
           /\ Len(got) = Cardinality(want)

\* The alias set of every word
AliasSets(st) == [w \in DOMAIN st.words |-> st.words[w].aliases]

Occurrences(list, x) == Cardinality({i \in 1..Len(list) : list[i] = x})

\* The phrases that differ from p in letter case and surrounding blanks only
Variants(p) == {q \in Phrases : Lower(Strip(q)) = Lower(Strip(p))}

C19_ExportImportRoundTrip ==
    (probe.op = "import" /\ probe.arg = TRUE) =>
        /\ store.target_samples = store.at_export.target_samples
        /\ DOMAIN store.words = DOMAIN probe.pre.words
        /\ \A w \in DOMAIN store.at_export.words :
               /\ w \in DOMAIN store.words
               /\ store.words[w] = store.at_export.words[w]
        /\ \A w \in DOMAIN store.words \ DOMAIN store.at_export.words :
               /\ store.words[w].aliases = {}
               /\ store.words[w].status = "Uncalibrated"
               /\ ComputeStatusForWord(store, w) = "Uncalibrated"
        /\ DOMAIN probe.pre.words = DOMAIN store.at_export.words =>
               store.words = store.at_export.words

\* A word with aliases and a time stamp was exported, lost its aliases, and
\* has them again after the import
C19_Witness ==
    /\ probe.op = "import"
    /\ probe.arg = TRUE
    /\ probe.pre.words["guided"].aliases = {}
    /\ store.words["guided"].aliases = {"guy did", "guidance"}
    /\ store.words["guided"].last_calibrated = "T1"
    /\ store.words["guided"].status = "Partial"

HistoryDone == probe.op = "_get_history_for_shell" /\ probe.done

\* The start offset the policy of an input selects
StartOf(p) ==
    IF p.mode = "session" THEN 0 ELSE IF p.mode = "anchor" THEN p.anchor ELSE p.last

\* The object after "v-buffer <word>" was typed, or "buffer <word>" said
\* after the wake word, under policy m0
TypedBuffer(m0, word) ==
    HandleTypedVoiceCommand([self EXCEPT !.buffer_mode = m0]
                                @@ [stack |-> << >>, fx |-> << >>], "v-buffer " \o word)

SaidBuffer(m0, word) ==
    HandleWakeCommand([self EXCEPT !.buffer_mode = m0]
                          @@ [stack |-> << >>, fx |-> << >>], <<"buffer", word>>)

\* C12: for a buffer of n entries and a start offset s with 0 <= s <= n, the
\* window is the entries s+1..n, s being 0 under "session", the anchor index
\* under "anchor" and the last-action index under "last", cut to its last 400
\* entries; n = 10 with anchor 4 gives 6 and with last 7 gives 3; the policy
\* is the one selected last
C12_WindowFromOffsetCapped ==
    /\ HistoryDone =>
           LET buf == BufferOf(probe.kind, probe.n)
               len == Min(probe.n - StartOf(probe), HistoryLimit)
           IN /\ probe.result = [i \in 1..len |-> buf[probe.n - len + i]]
              /\ (probe.n = 10 /\ probe.mode = "anchor" /\ probe.anchor = 4) =>
                     Len(probe.result) = 6
              /\ (probe.n = 10 /\ probe.mode = "last" /\ probe.last = 7) =>
                     Len(probe.result) = 3
    /\ \A m0 \in Modes :
           /\ TypedBuffer(m0, "session").buffer_mode = "session"
           /\ TypedBuffer(m0, "last").buffer_mode = "last"
           /\ TypedBuffer(m0, "clear").buffer_mode = "anchor"
           /\ SaidBuffer(m0, "session").buffer_mode = "session"
           /\ SaidBuffer(m0, "last").buffer_mode = "last"
           /\ SaidBuffer(m0, "clear").buffer_mode = "anchor"

\* 450 entries under "anchor" with anchor 4: the window is entries 51..450
C12_Witness ==
    /\ HistoryDone
    /\ probe.kind = "plain"
    /\ probe.n = 450
    /\ probe.mode = "anchor"
    /\ probe.anchor = 4
    /\ Len(probe.result) = HistoryLimit
    /\ probe.result[1] = "l51"
    /\ probe.result[HistoryLimit] = "l450"

\* C12 as stated: the window is exactly the entries s+1..n
C12_WindowFromOffset ==
    HistoryDone =>
        probe.result = SubSeq(BufferOf(probe.kind, probe.n), StartOf(probe) + 1, probe.n)

\* C13: the window never has more than 400 lines and is made of the most
\* recent lines of the selected slice, whatever was printed; the preview shows
\* at most the last 40 lines of the window
C13_WindowAtMost400Lines ==
    HistoryDone =>
        LET slice == SubSeq(BufferOf(probe.kind, probe.n), StartOf(probe) + 1, probe.n) IN
        /\ probe.lines <= HistoryLimit
        /\ probe.result = LastN(slice, Len(probe.result))
        /\ probe.preview <= PreviewLimit
        /\ probe.preview = Min(probe.lines, PreviewLimit)

ExtractDone == probe.op = "_extract_cmd_expl_from_response" /\ probe.done

\* The lines of a response that are not blank, trimmed
NonEmptyLines(response) ==
    LET all == SplitLines(response) IN
    SelectSeq([i \in 1..Len(all) |-> Strip(all[i])], LAMBDA l : l # "")

\* What follows the first k characters of a line, trimmed
Payload(l, k) == Strip(SubSeq(l, k + 1, Len(l)))

Greatest(S) == CHOOSE i \in S : \A j \in S : j <= i

\* C14: over the non-empty lines of a response, the command is the payload of
\* the (last) line that starts with "CMD:" in any letter case, else the first
\* line; the explanation is the payload of the (last) line that starts with
\* "EXPL:", else the second line if there is one; no line gives (None, None)
C14_ExtractionByMarkerOrPosition ==
    /\ ExtractDone =>
           LET lines == IF probe.response = None THEN << >>
                        ELSE NonEmptyLines(probe.response)
               cmds == {i \in 1..Len(lines) : StartsWith(Lower(lines[i]), "cmd:")}
               expls == {i \in 1..Len(lines) : StartsWith(Lower(lines[i]), "expl:")}
           IN /\ probe.result[1] = IF cmds # {} THEN Payload(lines[Greatest(cmds)], 4)
                                   ELSE IF lines # << >> THEN lines[1] ELSE None
              /\ probe.result[2] = IF expls # {} THEN Payload(lines[Greatest(expls)], 5)
                                   ELSE IF Len(lines) > 1 THEN lines[2] ELSE None
              /\ lines = << >> => probe.result = <<None, None>>
    /\ ExtractCmdExpl([last_codex_response |-> "random line\nCMD: ls -la\nEXPL: list files"])
           = <<"ls -la", "list files">>
    /\ ExtractCmdExpl([last_codex_response |-> "foo\nbar"]) = <<"foo", "bar">>

\* The two examples, a blank line among the lines, and a response of blanks
C14_Witness ==
    /\ ExtractDone
    /\ \/ probe.response = "random line\nCMD: ls -la\nEXPL: list files"
          /\ probe.result = <<"ls -la", "list files">>
       \/ probe.response = "foo\n\n bar " /\ probe.result = <<"foo", "bar">>

FuzzyDone == probe.op \in {"_fuzzy_in", "_fuzzy"} /\ probe.done

\* The normalization of each matcher
NormalizedFor(op, x) ==
    IF op = "_fuzzy_in" THEN Strip(Lower(x)) ELSE StripChars(Lower(x), FuzzyStrip)

\* SequenceMatcher(None, a, b).ratio() as a fraction
RatioOf(a, b) ==
    IF Len(a) + Len(b) = 0 THEN <<1, 1>>
    ELSE <<2 * MatchSize(a, 1, Len(a) + 1, b, 1, Len(b) + 1), Len(a) + Len(b)>>

\* The greatest of a set of fractions, 0 for the empty set
BestOf(ratios) ==
    IF ratios = {} THEN <<0, 1>>
    ELSE CHOOSE f \in ratios : \A g \in ratios : f[1] * g[2] >= g[1] * f[2]

\* C20: a matcher returns true iff the greatest similarity ratio between the
\* normalized word and the normalized candidates reaches the threshold, and
\* false for an empty word and for no candidate; at 0.78 "guided" and
\* "Guided!" match ["guided"], "xyz123" does not, in the shell and in the GUI
C20_MatchIffBestRatioReaches ==
    /\ FuzzyDone =>
           LET w == NormalizedFor(probe.op, probe.word)
               all == {NormalizedFor(probe.op, probe.candidates[i]) :
                          i \in 1..Len(probe.candidates)}
               cs == IF probe.op = "_fuzzy" THEN all \ {""} ELSE all
               best == BestOf({RatioOf(w, c) : c \in cs})
           IN /\ probe.result = (/\ w # ""
                                 /\ probe.candidates # << >>
                                 /\ 100 * best[1] >= probe.pct * best[2])
              /\ (probe.word = "" \/ probe.candidates = << >>) => ~probe.result
    /\ FuzzyIn("guided", <<"guided">>, FuzzyThreshold)
    /\ ~FuzzyIn("xyz123", <<"guided">>, FuzzyThreshold)
    /\ FuzzyIn("Guided!", <<"guided">>, FuzzyThreshold)
    /\ Fuzzy("guided", <<"guided">>, FuzzyThreshold)
    /\ ~Fuzzy("xyz123", <<"guided">>, FuzzyThreshold)
    /\ Fuzzy("Guided!", <<"guided">>, FuzzyThreshold)

\* "Guided!" was matched against "guided" and "unguided" at 0.78
C20_Witness ==
    /\ FuzzyDone
    /\ probe.word = "Guided!"
    /\ probe.candidates = <<"guided", "unguided">>
    /\ probe.pct = FuzzyThreshold
    /\ probe.result

\* The step ended a shell-command or voice-command request
RequestEnded == Did("proposed") \/ Did("no_command")

\* C15: a request whose response has no usable line, its text being empty,
\* ends with the pending command and the pending explanation both null and
\* with the notice that no command could be extracted
C15_EmptyResponseClearsPending ==
    (RequestEnded /\ self.last_codex_response = "(no output)") =>
        /\ self.pending_shell_command = None
        /\ self.pending_shell_explanation = None
        /\ Did("no_command")

\* The step handled the utterance as a command after the wake word
HeardCommand(text) ==
    step.op = "utterance" /\ step.input = text /\ ~Truthy(step.pre.confirm_mode)

\* C26: the playback speed is within [0.5, 2.0] in every state, after the
\* settings file, a -speed: launch argument and every speed command; "speed
\* increase" and "speed decrease" change it by 0.25, or to the bound where
\* that would leave the range
C26_SpeedWithinRange ==
    /\ TTS_SPEED_MIN <= self.tts_speed
    /\ self.tts_speed <= TTS_SPEED_MAX
    /\ HeardCommand("alice speed increase") =>
           self.tts_speed = IF step.pre.tts_speed + 25 > 200 THEN 200
                            ELSE step.pre.tts_speed + 25
    /\ HeardCommand("alice speed decrease") =>
           self.tts_speed = IF step.pre.tts_speed - 25 < 50 THEN 50
                            ELSE step.pre.tts_speed - 25

\* A speed of 1.90 was raised to the bound, not to 2.15
C26_Witness ==
    /\ HeardCommand("alice speed increase")
    /\ step.pre.tts_speed = 190
    /\ self.tts_speed = 200

\* The session state: pending pair, confirmation reason, prompt, settings,
\* buffer policy and indices
SessionFields ==
    {"pending_shell_command", "pending_shell_explanation", "confirm_mode",
     "prompt_text", "prompt_capture", "assistant_name", "guided_mode",
     "current_model", "current_reasoning", "debug_enabled", "save_recordings",
     "save_prompts", "use_color", "tts_speed", "voice_index", "buffer_mode",
     "buffer_anchor_index", "buffer_last_action_index"}

\* C23: the session state is changed by the main thread only; a step of the
\* recognition thread leaves every session field as it was
C23_OnlyMainMutatesSession ==
    step.by = "voice" => \A k \in SessionFields : self[k] = step.pre[k]

\* The utterance is a wake command that asks for speech: repeat, respond, help
DirectSpeechRequest(text) ==
    /\ Len(Tokenize(text)) >= 2
    /\ \/ Tokenize(text)[2] \in {"repeat", "help"}
       \/ FuzzyIn(Tokenize(text)[2], <<"respond", "response", "reply">>, FuzzyThreshold)

\* C25: with guided mode off, an utterance that is not a direct speech
\* request (repeat, respond, help) is handled without any spoken output
C25_UnguidedSpeaksOnRequestOnly ==
    (step.op = "utterance" /\ ~step.pre.guided_mode /\ ~DirectSpeechRequest(step.input))
        => ~Did("speak")

\* The step was an accepted confirmation of reason, said or typed
Accepted(reason) ==
    /\ step.pre.confirm_mode = reason
    /\ \/ step.op = "utterance" /\ HeardYes(step.input)
       \/ step.op = "typed" /\ TypedAs(step.input) \in Affirmative

\* The step was an accepted save: 'save' confirmed by yes, or the question
\* of v-save answered y, yes or confirm
AcceptedSave ==
    \/ Accepted("save_settings")
    \/ step.op = "answer" /\ step.frame = "save_input" /\ TypedAs(step.input) \in Affirmative

\* C27: the settings file is written by an accepted save confirmation only:
\* every step that writes it is one, and every other step leaves the file
\* as it was
C27_SavedOnlyWhenConfirmed ==
    /\ Did("save_settings") => AcceptedSave
    /\ ~Did("save_settings") => self.settings_file = step.pre.settings_file

\* The file has been written after 'save' and a yes
C27_Witness ==
    /\ Accepted("save_settings")
    /\ Did("save_settings")
    /\ step.pre.settings_file = << >>
    /\ self.settings_file # << >>

Reasons == {"save_settings", "save_prompts", "exit"}

\* The step left alone what an accepted confirmation of reason changes
Untouched(reason) ==
    IF reason = "save_settings" THEN ~Did("save_settings")
    ELSE IF reason = "save_prompts" THEN self.save_prompts = step.pre.save_prompts
    ELSE self.exit_requested = step.pre.exit_requested

\* The step has done what an accepted confirmation of reason does
Applied(reason) ==
    IF reason = "save_settings" THEN Did("save_settings")
    ELSE IF reason = "save_prompts" THEN self.save_prompts
    ELSE self.exit_requested

\* The step asked for a confirmation while that of reason was pending
Replacing(reason) ==
    /\ step.pre.confirm_mode = reason
    /\ step.replaced = reason
    /\ ~Did("decision")

\* C28: a confirmation asked for while another one is pending replaces it
\* silently: the old reason is neither answered nor applied and the new one
\* is pending; a yes applies the action of the reason pending then and of no
\* other, in particular not that of a reason it has replaced
C28_NewReasonReplacesPending ==
    \A r \in Reasons :
        /\ Replacing(r) => /\ Untouched(r)
                           /\ Truthy(self.confirm_mode)
                           /\ self.confirm_mode # r
        /\ Accepted(r) => /\ Applied(r)
                          /\ \A q \in Reasons \ {r} : Untouched(q)
                          /\ ~Truthy(self.confirm_mode)

\* 'save' was pending when the proposed 'Alice exit' was run from v-exec; the
\* yes that followed has ended the session and written no settings
C28_Witness ==
    /\ Accepted("exit")
    /\ step.replaced = "save_settings"
    /\ self.exit_requested
    /\ ~Did("save_settings")

\* C29: one interaction mode at a time: the prompt capture is not active
\* while a confirmation is pending, and is not active once a confirmation
\* has been answered
C29_OneModeAtATime ==
    /\ ~(self.prompt_capture /\ Truthy(self.confirm_mode))
    /\ (Did("decision") /\ ~Truthy(self.confirm_mode)) => ~self.prompt_capture

\* The utterance was heard during the prompt capture, no confirmation pending
Dictated(text) ==
    /\ step.op = "utterance"
    /\ step.input = text
    /\ step.pre.prompt_capture
    /\ ~Truthy(step.pre.confirm_mode)

\* C30: during the prompt capture "done" or "enter" alone ends the capture
\* and leaves the prompt text as it is; every other utterance that does not
\* start with the wake word is appended as heard, after one space when the
\* prompt text is not empty, and the capture goes on
C30_DictationAppendedVerbatim ==
    \A text \in CaptureUtterances :
        Dictated(text) =>
            IF text \in {"done", "enter"}
            THEN ~self.prompt_capture /\ self.prompt_text = step.pre.prompt_text
            ELSE ~HeardWake(text) =>
                     /\ self.prompt_capture
                     /\ self.prompt_text =
                            (IF step.pre.prompt_text # "" THEN step.pre.prompt_text \o " "
                             ELSE "") \o text

\* Thread t waits for the code-generation tool it has started
InFlight(t) == \E i \in 1..Len(blocked[t]) : blocked[t][i].f = "codex_wait"

\* C24: one invocation of the code-generation tool at a time, and no
\* utterance or typed line handled by one thread while the invocation of the
\* other thread is in flight
C24_NothingHandledWhileInFlight ==
    /\ ~(InFlight("main") /\ InFlight("voice"))
    /\ \A t \in Threads :
           (step.by # t /\ step.op \in {"utterance", "typed"}) => ~InFlight(t)

\* The last step was the command op of the GUI
Commanded(op) == gui.last.op = op

\* C21: no chunk of the current speech request has been played twice, and
\* a 'continue' that starts a worker starts it at the first chunk not yet
\* played: the chunks before the index were played once, the others not
C21_ChunksPlayedOnceInOrder ==
    /\ \A i \in 1..Len(gui.played) : gui.played[i] <= 1
    /\ (Commanded("continue") /\ gui.last.started) =>
           \A i \in 1..Len(gui.tts_chunks) :
               gui.played[i] = IF i <= gui.tts_index THEN 1 ELSE 0

\* A paused speech of two or more chunks is resumed after its first chunk
C21_Witness ==
    /\ Commanded("continue")
    /\ gui.last.started
    /\ gui.tts_index = 1
    /\ Len(gui.tts_chunks) >= 2
    /\ gui.played[1] = 1

\* The commands that ask for speech
StartRequests == {"respond", "help", "guided", "continue"}

\* C22: one speech worker at a time; a request for speech made while the
\* worker is alive starts no worker, leaves the chunk list and the index as
\* they are, and is answered by a notice in the console
C22_OneWorkerRequestsRefused ==
    /\ Cardinality({w \in Workers : IsAlive(gui, w)}) <= 1
    /\ \A op \in StartRequests :
           (Commanded(op) /\ gui.last.alive) =>
               /\ ~gui.last.started
               /\ gui.tts_chunks = gui.last.chunks
               /\ gui.tts_index = gui.last.index
               /\ gui.last.notice # ""

\* C31: a wake command other than "done" and "enter" heard during the prompt
\* capture leaves the prompt text as it was
C31_WakeCommandKeepsPrompt ==
    \A text \in DispatchUtterances :
        (Dictated(text) /\ HeardWake(text) /\ Len(Tokenize(Strip(text))) >= 2) =>
            self.prompt_text = step.pre.prompt_text

\* The step began with the exit confirmation accepted
AfterExit == step.pre.exit_requested

C33_OneLoopOfEachKind ==
    /\ Cardinality(Running(mic.audio)) <= 1
    /\ Cardinality(Running(mic.stt)) <= 1
    /\ mic.g_streams <= 1
    /\ Cardinality(Running(mic.g_loops)) <= 1

\* C34: every alias the store holds is non-empty, without blanks around it
\* and in lower case, and no two aliases of a word are equal once normalized
C34_AliasesNormalized ==
    \A w \in DOMAIN store.words :
        \A a \in store.words[w].aliases :
            /\ a # ""
            /\ a = Lower(Strip(a))
            /\ \A b \in store.words[w].aliases :
                   Lower(Strip(a)) = Lower(Strip(b)) => a = b

\* The names the assistant is given
NewNames == {"bob", "big bob", "max"}

\* The step has given the assistant the name
Renamed(name) ==
    \/ HeardCommand("alice rename " \o name) /\ HeardWake("alice rename " \o name)
                                             /\ DidWith("wake", "rename " \o name)
    \/ step.op = "typed" /\ step.input = "v-rename " \o name /\ ~step.pre.exit_requested

\* C35: a renaming to N makes N the name and a wake alias, and an utterance of
\* N followed by "settings" is then dispatched to the settings handler
C35_NewNameWakes ==
    \A name \in NewNames :
        /\ Renamed(name) =>
               /\ self.assistant_name = name
               /\ \E i \in 1..Len(self.profile["wake"]) : self.profile["wake"][i] = name
        /\ (HeardCommand(name \o " settings") /\ step.pre.assistant_name = name) =>
               DidWith("wake", "settings")

\* The command the step has run as the pending one
Executed == step.fx[CHOOSE i \in 1..Len(step.fx) : step.fx[i][1] = "exec"][2]

\* C36: the command an accepted 'exec' confirmation runs is the command its
\* question displayed, whatever was heard and typed in between
C36_RunsWhatWasDisplayed ==
    (AcceptedExec /\ Did("exec")) =>
        Executed = Strip(IF step.op = "answer" THEN step.asked.inline ELSE step.asked.mode)

\* What _run_codex_prompt leaves as the response when the call has failed or
\* has returned no output
FailureTexts ==
    {CodexNotFound, "Error running codex: Permission denied",
     "Error (exit code 1):\nnot logged in", "(no output)"}

\* C37: a request whose call of the code-generation tool has failed or has
\* returned no output ends without a pending command
C37_FailureLeavesNothingPending ==
    (RequestEnded /\ self.last_codex_response \in FailureTexts) =>
        self.pending_shell_command = None

\* C38: when no handler is under way and the pending reason is 'exec', there
\* is a pending command
C38_ExecReasonHasCommand ==
    (Quiet /\ self.confirm_mode = "exec") => Truthy(self.pending_shell_command)

\* The typed answers to a pending confirmation
TypedAnswers == {"yes", "y", "confirm", "no", "n", "cancel"}

\* C39: while a confirmation is pending a line typed at the prompt that is
\* not an answer changes no field of the object (settings, pending command,
\* buffer, reason) and starts no handler
C39_OtherLinesChangeNothing ==
    (/\ step.op = "typed"
     /\ Truthy(step.pre.confirm_mode)
     /\ TypedAs(step.input) \notin TypedAnswers) =>
        /\ self = step.pre
        /\ blocked["main"] = << >>
        /\ ~Did("shell") /\ ~Did("codex") /\ ~Did("ask_exec")

\* C40: the voice mode of the GUI is 'confirm_clear' only while the dialog of
\* the clear confirmation exists
C40_ConfirmModeOnlyWithDialog ==
    gui.voice_mode = "confirm_clear" => gui.clear_confirm_window = "open"

====
